---------------------------- MODULE Spec2Model ----------------------------
(***************************************************************************)
(* JSONGraphEditor: the graph view (GraphViewer.jsx), its graph utilities  *)
(* (utils/graphUtils.js), the JSON editor (JsonEditor_v2.jsx) and the part *)
(* of the store (jsonStore_v2.js) they read and write.                     *)
(*                                                                         *)
(* Strings are sequences of one-character strings, so that concatenation, *)
(* split('.') and comparison are computed as the code computes them.       *)
(* Pixel coordinates are integers in units of 1/Scale pixel.               *)
(***************************************************************************)
EXTENDS Integers, Sequences, FiniteSets, TLC

VARIABLES
    jsonData,          \* store: state.jsonData
    updateCount,       \* store: state.stats.updateCount
    previousDataRef,   \* GraphViewer: previousDataRef.current
    nodePositionsRef,  \* GraphViewer: nodePositionsRef.current (id -> {x, y})
    zoomStateRef,      \* GraphViewer: zoomStateRef.current
    changeType,        \* GraphViewer: the memoized changeType
    timers,            \* pending setTimeout(renderGraph, 100) closures, oldest first
    drawn,             \* what the svg shows: the document and the nodes drawn
    lastPass,          \* the layoutNodes call of the most recent render pass
    selectedPath,      \* store: state.selectedPath
    selectedData,      \* store: state.selectedData
    clicked,           \* the drawn node the most recent click was on
    dropped,           \* id -> where the node was last dropped, since the last relayout
    jsonText,          \* JsonEditor: the text of the textarea
    isFocused,         \* JsonEditor: the isFocused state
    hasFocus,          \* the textarea is the document's focused element
    lastSyncedData,    \* JsonEditor: lastSyncedData.current, as the update it came from
    exDoc, exOut, exDone,          \* extractGraphData: input, output, applied
    clNew, clOld, clOut, clDone,   \* detectStructureChange: inputs, output, applied
    selectedTable,     \* store: state.selectedTable
    selectedTableData, \* store: state.selectedTableData
    selectedType,      \* store: state.selectedType
    activeEditor,      \* store: state.activeEditor
    errors,            \* store: state.errors
    lastUpdate,        \* store: state.stats.lastUpdate
    tableData,         \* TableEditor: the tableData state
    editingCell,       \* TableEditor: the editingCell state
    committed,         \* the most recent updateCell call of a finished edit
    cpSource, cpTargets, cpOut, cpDone  \* getOptimalConnectionPoints: inputs, output, applied

vars == <<jsonData, updateCount, previousDataRef, nodePositionsRef, zoomStateRef, changeType,
          timers, drawn, lastPass, selectedPath, selectedData, clicked, dropped,
          jsonText, isFocused, hasFocus, lastSyncedData,
          exDoc, exOut, exDone, clNew, clOld, clOut, clDone,
          selectedTable, selectedTableData, selectedType, activeEditor, errors, lastUpdate,
          tableData, editingCell, committed, cpSource, cpTargets, cpOut, cpDone>>

selVars == <<selectedPath, selectedData, clicked>>
viewVars == <<jsonData, updateCount, previousDataRef, nodePositionsRef, zoomStateRef, changeType,
              timers, drawn, lastPass, selVars, dropped>>
edVars == <<jsonText, isFocused, hasFocus, lastSyncedData>>
exVars == <<exDoc, exOut, exDone>>
clVars == <<clNew, clOld, clOut, clDone>>
stVars == <<selectedTable, selectedTableData, selectedType, activeEditor, errors>>
tbVars == <<tableData, editingCell, committed>>
cpVars == <<cpSource, cpTargets, cpOut, cpDone>>

-----------------------------------------------------------------------------
(* Bounds *)

\* longest generated array
MaxLen == 2
\* most keys of a generated root object
MaxKeys == 2
\* most resize timers pending at once
MaxTimers == 1
\* most document updates in one run of the viewer
MaxUpdates == 2
\* the drags take one of the first MaxDragNode drawn nodes
MaxDragNode == 2

-----------------------------------------------------------------------------
(* Strings *)

Digits == <<"0", "1", "2", "3", "4", "5", "6", "7", "8", "9">>

RECURSIVE NumToStr(_)
\* String(n) / template interpolation of a non-negative integer
NumToStr(n) ==
    IF n < 10 THEN <<Digits[n + 1]>>
    ELSE NumToStr(n \div 10) \o <<Digits[(n % 10) + 1]>>

RECURSIVE LastIndexOf(_, _, _)
\* the largest i <= from with s[i] = c, or 0
LastIndexOf(s, c, from) ==
    IF from = 0 THEN 0
    ELSE IF s[from] = c THEN from
    ELSE LastIndexOf(s, c, from - 1)

\* s.split(c).pop(): what follows the last c, the whole string when there is none
SplitPop(s, c) ==
    LET i == LastIndexOf(s, c, Len(s))
    IN  SubSeq(s, i + 1, Len(s))

-----------------------------------------------------------------------------
(* JSON values.  One record shape for every value: t is the JSON type, b, n *)
(* and s the payload of a boolean, number and string, keys the own keys of  *)
(* an object in Object.keys order and items the elements (of an array) or   *)
(* the values keys[i] maps to (of an object).                               *)

JNull == [t |-> "null", b |-> FALSE, n |-> 0, s |-> <<>>, keys |-> <<>>, items |-> <<>>]
JBool(x) == [t |-> "boolean", b |-> x, n |-> 0, s |-> <<>>, keys |-> <<>>, items |-> <<>>]
JNum(x) == [t |-> "number", b |-> FALSE, n |-> x, s |-> <<>>, keys |-> <<>>, items |-> <<>>]
JStr(x) == [t |-> "string", b |-> FALSE, n |-> 0, s |-> x, keys |-> <<>>, items |-> <<>>]
JArr(xs) == [t |-> "array", b |-> FALSE, n |-> 0, s |-> <<>>, keys |-> <<>>, items |-> xs]
JObj(ks, xs) == [t |-> "object", b |-> FALSE, n |-> 0, s |-> <<>>, keys |-> ks, items |-> xs]

\* typeof v
TypeOf(v) ==
    IF v.t \in {"null", "array", "object"} THEN "object" ELSE v.t

\* Array.isArray(v)
IsArray(v) == v.t = "array"

\* typeof v === 'object' && v !== null && !Array.isArray(v)
IsPlainObject(v) == v.t = "object"

\* String(v) of a primitive
StringOf(v) ==
    CASE v.t = "null" -> <<"n", "u", "l", "l">>
      [] v.t = "boolean" -> IF v.b THEN <<"t", "r", "u", "e">>
                                   ELSE <<"f", "a", "l", "s", "e">>
      [] v.t = "number" -> NumToStr(v.n)
      [] OTHER -> v.s

\* obj[key] of an object that has the key
Get(obj, key) ==
    obj.items[CHOOSE i \in 1..Len(obj.keys) : obj.keys[i] = key]

\* JS truthiness of a document
Truthy(v) ==
    CASE v.t = "null" -> FALSE
      [] v.t = "boolean" -> v.b
      [] v.t = "number" -> v.n # 0
      [] v.t = "string" -> v.s # <<>>
      [] OTHER -> TRUE

-----------------------------------------------------------------------------
(* graphUtils.js: extractGraphData *)

\* the id of the root node
JSONId == <<"J", "S", "O", "N">>

\* parentId: null
NullId == <<>>

\* arr.every(item => Array.isArray(item))
EveryItemIsArray(arr) == \A i \in 1..Len(arr.items) : IsArray(arr.items[i])

\* is2DArray without the test of arr.length
is2DArrayNoLengthTest(arr) ==
    IsArray(arr) /\ EveryItemIsArray(arr)

is2DArray(arr) ==
    IsArray(arr) /\ Len(arr.items) > 0 /\ EveryItemIsArray(arr)

\* the type a slot records for a composite value
SlotType(value) ==
    IF IsArray(value) THEN (IF is2DArray(value) THEN "2d-array" ELSE "array")
    ELSE "object"

\* `[${index}]`
IndexKey(index) == <<"[">> \o NumToStr(index) \o <<"]">>

MkNode(id, name, data, type, subtype, depth, parentId, slots, properties) ==
    [id |-> id, name |-> name, data |-> data, type |-> type, subtype |-> subtype,
     depth |-> depth, parentId |-> parentId, slots |-> slots, properties |-> properties]

MkLink(sourceId, targetId, slotKey, type) ==
    [sourceId |-> sourceId, targetId |-> targetId, slotKey |-> slotKey, type |-> type]

\* nodes.find(n => n.id === id): the index of the first such node, or 0
FindNode(nodes, id) ==
    IF \E i \in 1..Len(nodes) : nodes[i].id = id
    THEN CHOOSE i \in 1..Len(nodes) :
            nodes[i].id = id /\ \A j \in 1..(i - 1) : nodes[j].id # id
    ELSE 0

\* PrimitiveNodeType without the case of a number
PrimitiveNodeTypeNoNumber(obj) ==
    IF obj.t \in {"string", "boolean"} THEN obj.t ELSE "primitive"

\* the node type of a primitive value
PrimitiveNodeType(obj) ==
    IF obj.t \in {"string", "number", "boolean"} THEN obj.t ELSE "primitive"

RECURSIVE extractNodes(_, _, _, _, _)
RECURSIVE ExtractRootKeys(_, _, _)
RECURSIVE ExtractArrayItems(_, _, _, _, _)
RECURSIVE ExtractObjectKeys(_, _, _, _, _)

\* A value that is used more than once is bound by a quantifier over a singleton
\* set (CHOOSE out \in {e(v) : v \in {value}} : TRUE is e(value)), so that it is
\* computed once, and one iteration of a loop before the next iteration starts.

\* Object.keys(obj).forEach of the root branch, from the k-th key on
ExtractRootKeys(acc, obj, k) ==
    IF k > Len(obj.keys) THEN acc
    ELSE LET key == obj.keys[k]
             a1 == extractNodes(acc, obj.items[k], key, 1, JSONId)
             a2 == [a1 EXCEPT !.links =
                       Append(@, MkLink(JSONId, key, <<>>, "root-child"))]
         IN  CHOOSE out \in {ExtractRootKeys(a, obj, k + 1) : a \in {a2}} : TRUE

\* obj.forEach((item, index) => ...) of the array branch, from element k on;
\* r carries nodes, links, slots and simpleProps
ExtractArrayItems(r, obj, currentId, depth, k) ==
    IF k > Len(obj.items) THEN r
    ELSE LET item == obj.items[k]
             index == k - 1
             slotId == currentId \o IndexKey(index)
             a1 == extractNodes([nodes |-> r.nodes, links |-> r.links],
                                item, slotId, depth + 1, currentId)
             r1 == IF TypeOf(item) # "object" \/ item.t = "null"
                   THEN [r EXCEPT !.properties = Append(@,
                            [key |-> IndexKey(index), value |-> StringOf(item),
                             type |-> TypeOf(item)])]
                   ELSE [nodes |-> a1.nodes,
                         links |-> Append(a1.links,
                                      MkLink(currentId, slotId, IndexKey(index), "slot")),
                         slots |-> Append(r.slots,
                                      [key |-> IndexKey(index), slotId |-> slotId,
                                       type |-> SlotType(item)]),
                         properties |-> r.properties]
         IN  CHOOSE out \in {ExtractArrayItems(n, obj, currentId, depth, k + 1) :
                                n \in {r1}} : TRUE

\* Object.keys(obj).forEach(key => ...) of the object branch, from the k-th key on
ExtractObjectKeys(r, obj, currentId, depth, k) ==
    IF k > Len(obj.keys) THEN r
    ELSE LET key == obj.keys[k]
             value == obj.items[k]
             slotId == currentId \o <<".">> \o key
             a1 == extractNodes([nodes |-> r.nodes, links |-> r.links],
                                value, slotId, depth + 1, currentId)
             r1 == IF IsArray(value) \/ value.t = "object"
                   THEN [nodes |-> a1.nodes,
                         links |-> Append(a1.links,
                                      MkLink(currentId, slotId, key, "slot")),
                         slots |-> Append(r.slots,
                                      [key |-> key, slotId |-> slotId,
                                       type |-> SlotType(value)]),
                         properties |-> r.properties]
                   ELSE [r EXCEPT !.properties = Append(@,
                            [key |-> key, value |-> StringOf(value),
                             type |-> TypeOf(value)])]
         IN  CHOOSE out \in {ExtractObjectKeys(n, obj, currentId, depth, k + 1) :
                                n \in {r1}} : TRUE

\* extractNodes(obj, path, depth, parentId), with the nodes and links pushed so far
extractNodes(acc, obj, path, depth, parentId) ==
    LET currentId == IF path = <<>> THEN JSONId ELSE path
        name == SplitPop(path, ".")
        start == [nodes |-> acc.nodes, links |-> acc.links,
                  slots |-> <<>>, properties |-> <<>>]
    IN
    IF path = <<>>
    THEN LET a1 == [acc EXCEPT !.nodes = Append(@,
                       MkNode(JSONId, JSONId, obj, "root", "", 0, NullId, <<>>, <<>>))]
         IN  IF IsPlainObject(obj) THEN ExtractRootKeys(a1, obj, 1) ELSE a1
    ELSE IF IsArray(obj)
    THEN IF is2DArray(obj)
         THEN [acc EXCEPT !.nodes = Append(@,
                  MkNode(currentId, name, obj, "2d-array", "", depth, parentId,
                         <<>>, <<>>))]
         ELSE CHOOSE out \in
                  {[nodes |-> Append(r.nodes,
                       MkNode(currentId, name, obj, "complex-box", "array", depth,
                              parentId, r.slots, r.properties)),
                    links |-> r.links] :
                      r \in {ExtractArrayItems(start, obj, currentId, depth, 1)}} : TRUE
    ELSE IF obj.t = "object"
    THEN CHOOSE out \in
             {[nodes |-> Append(r.nodes,
                  MkNode(currentId, name, obj, "complex-box", "object", depth,
                         parentId, r.slots, r.properties)),
               links |-> r.links] :
                 r \in {ExtractObjectKeys(start, obj, currentId, depth, 1)}} : TRUE
    ELSE LET a1 == [acc EXCEPT !.nodes = Append(@,
                       MkNode(currentId, name, obj, PrimitiveNodeType(obj), "", depth,
                              parentId, <<>>, <<>>))]
             p == FindNode(a1.nodes, parentId)
         IN  IF parentId # NullId /\ p # 0 /\ a1.nodes[p].type # "complex-box"
             THEN [a1 EXCEPT !.links = Append(@,
                      MkLink(parentId, currentId, <<>>, "parent-child"))]
             ELSE a1

extractGraphData(data) ==
    extractNodes([nodes |-> <<>>, links |-> <<>>], data, <<>>, 0, NullId)

-----------------------------------------------------------------------------
(* graphUtils.js: detectStructureChange *)

\* Object.keys(v) as a set: the keys of an object, "0".."n-1" for an array
KeysOf(v) ==
    IF v.t = "array" THEN {NumToStr(i - 1) : i \in 1..Len(v.items)}
    ELSE {v.keys[i] : i \in 1..Len(v.keys)}

\* v[key] for a key of KeysOf(v)
GetKey(v, key) ==
    IF v.t = "array"
    THEN v.items[CHOOSE i \in 1..Len(v.items) : NumToStr(i - 1) = key]
    ELSE Get(v, key)

RECURSIVE isEqual(_, _)
\* lodash isEqual: deep equality; the order of an object's keys does not count
isEqual(a, b) ==
    /\ a.t = b.t
    /\ CASE a.t = "array" ->
                /\ Len(a.items) = Len(b.items)
                /\ \A i \in 1..Len(a.items) : isEqual(a.items[i], b.items[i])
         [] a.t = "object" ->
                /\ KeysOf(a) = KeysOf(b)
                /\ \A k \in KeysOf(a) : isEqual(Get(a, k), Get(b, k))
         [] OTHER -> a = b

Abs(x) == IF x < 0 THEN -x ELSE x

Max(a, b) == IF a >= b THEN a ELSE b

\* the deepest depth checkStructure still compares
MaxCheckDepth == 3

\* lengthChange / maxLength > 0.3
LengthRatioNum == 3
LengthRatioDen == 10

RECURSIVE checkStructure(_, _, _)
checkStructure(newObj, oldObj, depth) ==
    IF depth > MaxCheckDepth THEN "minor"
    ELSE IF TypeOf(newObj) # TypeOf(oldObj) THEN "major"
    ELSE IF IsArray(newObj) /\ IsArray(oldObj)
    THEN LET lengthChange == Abs(Len(newObj.items) - Len(oldObj.items))
             maxLength == Max(Len(newObj.items), Len(oldObj.items))
         IN  IF maxLength > 0 /\ lengthChange * LengthRatioDen > LengthRatioNum * maxLength
             THEN "major"
             ELSE IF /\ Len(newObj.items) > 0
                     /\ Len(oldObj.items) > 0
                     /\ checkStructure(newObj.items[1], oldObj.items[1], depth + 1) = "major"
             THEN "major"
             ELSE "minor"
    ELSE IF TypeOf(newObj) = "object" /\ newObj.t # "null" /\ oldObj.t # "null"
    THEN \* the sorted key lists agree in length and element by element exactly
         \* when the key sets are equal
         IF KeysOf(newObj) # KeysOf(oldObj) THEN "major"
         ELSE IF \E key \in KeysOf(newObj) :
                     checkStructure(GetKey(newObj, key), GetKey(oldObj, key), depth + 1)
                         = "major"
         THEN "major"
         ELSE "minor"
    ELSE "minor"

detectStructureChange(newData, oldData) ==
    IF ~Truthy(oldData) THEN "major"
    ELSE IF isEqual(newData, oldData) THEN "none"
    ELSE checkStructure(newData, oldData, 0)

-----------------------------------------------------------------------------
(* The documents extractGraphData is applied to *)

\* the sequences over S of length at most n
SeqsUpTo(S, n) == UNION {[1..k -> S] : k \in 0..n}

\* the sequences of distinct keys of K of length at most n
KeySeqs(K, n) ==
    {ks \in SeqsUpTo(K, n) : \A i, j \in 1..Len(ks) : i # j => ks[i] # ks[j]}

\* the objects with at most n keys of K and values of S
Objects(K, S, n) ==
    UNION {{JObj(ks, xs) : xs \in [1..Len(ks) -> S]} : ks \in KeySeqs(K, n)}

\* the arrays over S of length at most n
Arrays(S, n) == {JArr(xs) : xs \in SeqsUpTo(S, n)}

kA == <<"a">>
kB == <<"b">>
kAB == <<"a", ".", "b">>

ExPrims == {JNull, JNum(1)}
ExArrays == Arrays({JNum(1), JArr(<<>>)}, MaxLen)
ExObjects == Objects({kB}, {JNum(1), JObj(<<>>, <<>>), JArr(<<JArr(<<JNum(1)>>)>>)}, 1)
ExInner == ExPrims \cup ExArrays \cup ExObjects

\* {"a":1,"b":[1,2,3]}
Scenario1Doc ==
    JObj(<<kA, kB>>, <<JNum(1), JArr(<<JNum(1), JNum(2), JNum(3)>>)>>)

\* [[1,2],[3,4]]
Scenario2Doc ==
    JArr(<<JArr(<<JNum(1), JNum(2)>>), JArr(<<JNum(3), JNum(4)>>)>>)

ExtraDocs ==
    { Scenario1Doc, Scenario2Doc,
      \* {"a":[{"b":true},"x"]}
      JObj(<<kA>>, <<JArr(<<JObj(<<kB>>, <<JBool(TRUE)>>), JStr(<<"x">>)>>)>>),
      \* {"":{"a":1}}
      JObj(<<<<>>>>, <<JObj(<<kA>>, <<JNum(1)>>)>>) }

\* the keys of the generated root objects
ExKeys == {kA, kAB, JSONId}

-----------------------------------------------------------------------------
(* jsonStore_v2.js: the values of the store's fields, getNestedValue;       *)
(* TableEditor.jsx: setNestedValueInObject                                   *)

\* the value of a property that does not exist
Undefined == [t |-> "undefined", b |-> FALSE, n |-> 0, s |-> <<>>, keys |-> <<>>, items |-> <<>>]

\* errors[editorId] === null
NoError == <<>>

\* the errors object of the initial state and of reset
NoErrors == [jsonEditor |-> NoError, tableEditor |-> NoError, graphViewer |-> NoError]

\* the values of stats.lastUpdate: null, and a Date.now() (the times are not
\* told apart)
NoTime == "null"
Now == "now"

\* the values of activeEditor
NoEditor == <<>>
TableEditorId == <<"t", "a", "b", "l", "e", "-", "e", "d", "i", "t", "o", "r">>

\* the selectedType values
NoType == "null"

RECURSIVE Split(_, _)
\* s.split(c)
Split(s, c) ==
    IF \A i \in 1..Len(s) : s[i] # c THEN <<s>>
    ELSE LET i == CHOOSE i \in 1..Len(s) : s[i] = c /\ \A j \in 1..(i - 1) : s[j] # c
         IN  <<SubSeq(s, 1, i - 1)>> \o Split(SubSeq(s, i + 1, Len(s)), c)

\* v[key] of an object or array: the own property, undefined when there is none
\* (no path of the inputs names a built-in property such as length)
Prop(v, key) ==
    IF v.t \in {"array", "object"} /\ key \in KeysOf(v) THEN GetKey(v, key) ELSE Undefined

RECURSIVE NestedFrom(_, _, _)
\* the loop of getNestedValue from the k-th key on
NestedFrom(current, keys, k) ==
    IF k > Len(keys) THEN current
    ELSE IF current.t \notin {"array", "object"} THEN Undefined
    ELSE NestedFrom(Prop(current, keys[k]), keys, k + 1)

\* getNestedValue(obj, path)
getNestedValue(obj, path) ==
    IF path = <<>> THEN obj ELSE NestedFrom(obj, Split(path, "."), 1)

\* v[key] = value on an object or array v: an own key is replaced, a new key of an
\* object is added after the others (no key of the inputs is an integer), and a key
\* that is no index of an array sets a property that is none of its elements
SetProp(v, key, value) ==
    IF key \in KeysOf(v)
    THEN [v EXCEPT !.items[CHOOSE i \in 1..Len(v.items) :
                               IF v.t = "array" THEN NumToStr(i - 1) = key
                               ELSE v.keys[i] = key] = value]
    ELSE IF v.t = "object"
    THEN [v EXCEPT !.keys = Append(v.keys, key), !.items = Append(v.items, value)]
    ELSE v

RECURSIVE SetFrom(_, _, _, _)
\* the walk and the assignment of setNestedValueInObject from the k-th key on:
\* ok is FALSE when a TypeError is thrown (a property of undefined or null is read
\* or set, or a property of a primitive is set in the module's strict mode)
SetFrom(current, keys, k, value) ==
    IF current.t \notin {"array", "object"} THEN [ok |-> FALSE, value |-> current]
    ELSE IF k = Len(keys) THEN [ok |-> TRUE, value |-> SetProp(current, keys[k], value)]
    ELSE \* bound once: the result of the rest of the walk
         LET inner == SetFrom(Prop(current, keys[k]), keys, k + 1, value)
         IN  IF inner.ok THEN [ok |-> TRUE, value |-> SetProp(current, keys[k], inner.value)]
             ELSE [ok |-> FALSE, value |-> current]

\* setNestedValueInObject(obj, path, value): the deep copy of a JSON value is the
\* value
setNestedValueInObject(obj, path, value) == SetFrom(obj, Split(path, "."), 1, value)

\* updateJsonData: errors after the source editor's error was cleared
ClearedErrors(errs, source) ==
    IF source = "json-editor" THEN [errs EXCEPT !.jsonEditor = NoError]
    ELSE IF source = "table-editor" THEN [errs EXCEPT !.tableEditor = NoError]
    ELSE errs

\* updateJsonData: selectedTableData after the refresh from newData
RefreshedTableData(newData, table, current) ==
    IF table # <<>> /\ IsArray(getNestedValue(newData, table))
    THEN getNestedValue(newData, table)
    ELSE current

-----------------------------------------------------------------------------
NoGraph == [nodes |-> <<>>, links |-> <<>>]

\* the store's fields of the initial state
StoreIdle ==
    /\ selectedTable = <<>>
    /\ selectedTableData = JArr(<<>>)
    /\ selectedType = NoType
    /\ activeEditor = NoEditor
    /\ errors = NoErrors
    /\ lastUpdate = NoTime

NoCell == <<>>
NoCommit == <<>>

TableIdle ==
    /\ tableData = <<>>
    /\ editingCell = NoCell
    /\ committed = NoCommit

AnchorIdle ==
    /\ cpSource = <<>>
    /\ cpTargets = <<>>
    /\ cpOut = <<>>
    /\ cpDone = FALSE


ViewIdle ==
    /\ jsonData = JNull
    /\ updateCount = 0
    /\ previousDataRef = JNull
    /\ nodePositionsRef = <<>>
    /\ zoomStateRef = 0
    /\ changeType = "none"
    /\ timers = <<>>
    /\ drawn = <<>>
    /\ lastPass = <<>>
    /\ selectedPath = <<>>
    /\ selectedData = JNull
    /\ clicked = <<>>
    /\ dropped = <<>>

EditorIdle ==
    /\ jsonText = <<>>
    /\ isFocused = FALSE
    /\ hasFocus = FALSE
    /\ lastSyncedData = 0

ClassifyIdle ==
    /\ clNew = JNull
    /\ clOld = JNull
    /\ clOut = "none"
    /\ clDone = FALSE

ExtractIdle ==
    /\ exDoc = JNull
    /\ exOut = NoGraph
    /\ exDone = FALSE

\* the document is a root object of at most MaxKeys keys of ExKeys with values of
\* ExInner, an array, a primitive, or one of ExtraDocs
InitExtract ==
    /\ \/ \E ks \in KeySeqs(ExKeys, MaxKeys) :
              \E xs \in [1..Len(ks) -> ExInner] : exDoc = JObj(ks, xs)
       \/ exDoc \in ExArrays \cup ExPrims \cup ExtraDocs
    /\ exOut = NoGraph
    /\ exDone = FALSE
    /\ ViewIdle
    /\ ClassifyIdle
    /\ EditorIdle
    /\ StoreIdle
    /\ TableIdle
    /\ AnchorIdle

RunExtract ==
    /\ ~exDone
    /\ exOut' = extractGraphData(exDoc)
    /\ exDone' = TRUE
    /\ UNCHANGED <<exDoc, viewVars, clVars, edVars, stVars, lastUpdate, tbVars, cpVars>>

NextExtract == RunExtract

SpecExtract == InitExtract /\ [][NextExtract]_vars

-----------------------------------------------------------------------------
(* Properties of extractGraphData, under SpecExtract *)

RECURSIVE MaxOver(_, _)
\* the largest f[i], i in 1..n, or 0
MaxOver(f, n) == IF n = 0 THEN 0 ELSE Max(f[n], MaxOver(f, n - 1))

RECURSIVE NestingDepth(_)
\* 0 for a primitive, 1 + the deepest element for an array or object
NestingDepth(v) ==
    IF v.t \in {"array", "object"}
    THEN 1 + MaxOver([i \in 1..Len(v.items) |-> NestingDepth(v.items[i])], Len(v.items))
    ELSE 0

RECURSIVE ReachesRootWithin(_, _, _)
\* following parentId from the node called id reaches the root node in <= steps
ReachesRootWithin(nodes, id, steps) ==
    LET i == FindNode(nodes, id)
    IN  IF i = 0 THEN FALSE
        ELSE IF nodes[i].type = "root" THEN TRUE
        ELSE IF steps = 0 THEN FALSE
        ELSE ReachesRootWithin(nodes, nodes[i].parentId, steps - 1)

InboundLinks(g, id) == {j \in 1..Len(g.links) : g.links[j].targetId = id}

\* C3: every non-root node of the output is the target of exactly one link, whose
\* source is the node's parentId, and its parentId chain reaches the root in at
\* most (nesting depth of the document) steps.
C3_TreeInvariant ==
    exDone =>
        \A i \in 1..Len(exOut.nodes) :
            LET n == exOut.nodes[i]
            IN  n.type # "root" =>
                    /\ Cardinality(InboundLinks(exOut, n.id)) = 1
                    /\ \A j \in InboundLinks(exOut, n.id) :
                           exOut.links[j].sourceId = n.parentId
                    /\ ReachesRootWithin(exOut.nodes, n.id, NestingDepth(exDoc))

\* C4: the node ids of one extraction are pairwise distinct and exactly one node
\* carries the root sentinel id, whatever characters the keys contain.
C4_IdsDistinct ==
    exDone =>
        /\ \A i, j \in 1..Len(exOut.nodes) :
               i # j => exOut.nodes[i].id # exOut.nodes[j].id
        /\ Cardinality({i \in 1..Len(exOut.nodes) : exOut.nodes[i].id = JSONId}) = 1

\* the nodes of the output whose value is an array, the root node aside
ArrayNodes(g) ==
    {i \in 1..Len(g.nodes) : g.nodes[i].type # "root" /\ g.nodes[i].data.t = "array"}

\* C6 (as amended): a node emitted for an array is a table node (2d-array) if and
\* only if the array has at least one element and every element is an array; every
\* other array node, the empty array included, is a complex-box of subtype array.
C6_TableIffNonEmptyAllArrays ==
    exDone =>
        \A i \in ArrayNodes(exOut) :
            LET n == exOut.nodes[i]
                rows == /\ Len(n.data.items) > 0
                        /\ \A k \in 1..Len(n.data.items) : n.data.items[k].t = "array"
            IN  /\ n.type = "2d-array" <=> rows
                /\ ~rows => (n.type = "complex-box" /\ n.subtype = "array")

\* C6 (as claimed): table node if and only if every element is an array, which an
\* array with no elements satisfies.
C6_TableIffAllArrays ==
    exDone =>
        \A i \in ArrayNodes(exOut) :
            LET n == exOut.nodes[i]
                rows == \A k \in 1..Len(n.data.items) : n.data.items[k].t = "array"
            IN  /\ n.type = "2d-array" <=> rows
                /\ ~rows => (n.type = "complex-box" /\ n.subtype = "array")

\* an empty array node and a table node in one output
C6_Witness ==
    /\ exDone
    /\ \E i \in ArrayNodes(exOut) :
           Len(exOut.nodes[i].data.items) = 0 /\ exOut.nodes[i].type = "complex-box"
    /\ \E i \in ArrayNodes(exOut) : exOut.nodes[i].type = "2d-array"

\* C7: a document whose root is an array gets a child node of root for the array;
\* for [[1,2],[3,4]] the output is the root node and exactly one child, a table
\* node of 2 rows and 2 columns.
C7_RootArrayChild ==
    (exDone /\ exDoc.t = "array") =>
        /\ \E i \in 1..Len(exOut.nodes) : exOut.nodes[i].parentId = JSONId
        /\ exDoc = Scenario2Doc =>
               /\ Len(exOut.nodes) = 2
               /\ \E i \in 1..2 :
                      /\ exOut.nodes[i].type = "2d-array"
                      /\ exOut.nodes[i].parentId = JSONId
                      /\ Len(exOut.nodes[i].data.items) = 2
                      /\ \A k \in 1..2 : Len(exOut.nodes[i].data.items[k].items) = 2

RootNode == MkNode(JSONId, JSONId, Scenario1Doc, "root", "", 0, NullId, <<>>, <<>>)

Scenario1Output ==
    [nodes |->
        << RootNode,
           MkNode(kA, kA, JNum(1), "number", "", 1, JSONId, <<>>, <<>>),
           MkNode(kB, kB, Scenario1Doc.items[2], "complex-box", "array", 1, JSONId,
                  <<>>,
                  << [key |-> <<"[", "0", "]">>, value |-> <<"1">>, type |-> "number"],
                     [key |-> <<"[", "1", "]">>, value |-> <<"2">>, type |-> "number"],
                     [key |-> <<"[", "2", "]">>, value |-> <<"3">>, type |-> "number"] >>) >>,
     links |->
        << MkLink(JSONId, kA, <<>>, "parent-child"),
           MkLink(JSONId, kA, <<>>, "root-child"),
           MkLink(JSONId, kB, <<>>, "root-child") >>]

C29_TableIsLeaf ==
    exDone =>
        \A i \in 1..Len(exOut.nodes) :
            exOut.nodes[i].type = "2d-array"
                => /\ \A j \in 1..Len(exOut.nodes) :
                          exOut.nodes[j].parentId # exOut.nodes[i].id
                   /\ \A l \in 1..Len(exOut.links) :
                          exOut.links[l].sourceId # exOut.nodes[i].id

-----------------------------------------------------------------------------
(* The documents detectStructureChange is applied to *)

k0 == <<"0">>

ClElems == {JNull, JNum(1), JStr(<<"x">>), JArr(<<>>), JObj(<<>>, <<>>)}
ClArrays == Arrays(ClElems, MaxLen)

\* key lists in Object.keys order: integer-like keys first
ClKeySeqs == {<<>>, <<k0>>, <<kA>>, <<k0, kA>>}
ClObjects == UNION {{JObj(ks, xs) : xs \in [1..Len(ks) -> ClElems]} : ks \in ClKeySeqs}

ClPrims ==
    {JNull, JBool(FALSE), JBool(TRUE), JNum(0), JNum(1), JStr(<<>>), JStr(<<"x">>)}

RECURSIVE Nest(_, _)
\* v under n levels of {"a": ...}
Nest(v, n) == IF n = 0 THEN v ELSE JObj(<<kA>>, <<Nest(v, n - 1)>>)

\* leaves at depth MaxCheckDepth and just below it
ClDeep ==
    {Nest(v, n) : v \in {JNum(1), JStr(<<"x">>), JArr(<<>>), JObj(<<k0>>, <<JNum(1)>>)},
                  n \in {MaxCheckDepth, MaxCheckDepth + 1}}

\* an array that shrinks beside a sibling, and one below the depth that is compared
ClShrunk ==
    {JArr(<<JNum(1), JArr(xs)>>) : xs \in {<<JNum(1)>>, <<JNum(1), JNum(1)>>}}
        \cup {Nest(JArr(<<JNum(1)>>), n) : n \in {MaxCheckDepth, MaxCheckDepth + 1}}

\* documents that differ from others of the set in one leaf only
ClLeaf ==
    {JArr(<<JNum(1), JArr(<<JNum(0)>>)>>), JObj(<<kA>>, <<JNum(0)>>),
     JObj(<<k0, kA>>, <<JNum(1), JStr(<<>>)>>)}

\* an array whose second element is an object with a key
ClKeyed == {JArr(<<JNum(1), JObj(<<kA>>, <<JNum(1)>>)>>)}

ClassifyDocs ==
    ClPrims \cup ClArrays \cup ClObjects \cup ClDeep \cup ClShrunk \cup ClLeaf \cup ClKeyed

InitClassify ==
    /\ clNew \in ClassifyDocs
    /\ clOld \in ClassifyDocs
    /\ clOut = "none"
    /\ clDone = FALSE
    /\ ViewIdle
    /\ ExtractIdle
    /\ EditorIdle
    /\ StoreIdle
    /\ TableIdle
    /\ AnchorIdle

RunClassify ==
    /\ ~clDone
    /\ clOut' = detectStructureChange(clNew, clOld)
    /\ clDone' = TRUE
    /\ UNCHANGED <<clNew, clOld, viewVars, exVars, edVars, stVars, lastUpdate, tbVars, cpVars>>

NextClassify == RunClassify

SpecClassify == InitClassify /\ [][NextClassify]_vars

-----------------------------------------------------------------------------
(* Properties of detectStructureChange, under SpecClassify *)

\* C9: classify returns major whenever one document's top-level value is an object
\* and the other's an array, the empty object and the empty array included.
C9_ObjectVsArrayMajor ==
    (/\ clDone
     /\ \/ clNew.t = "object" /\ clOld.t = "array"
        \/ clNew.t = "array" /\ clOld.t = "object")
        => clOut = "major"

RECURSIVE TypeMismatchWithin(_, _, _)
\* some pair of corresponding positions at depth <= MaxCheckDepth holds values of
\* different JSON types
TypeMismatchWithin(a, b, depth) ==
    /\ depth <= MaxCheckDepth
    /\ \/ a.t # b.t
       \/ /\ a.t = "array"
          /\ \E i \in 1..Len(a.items) :
                 i <= Len(b.items) /\ TypeMismatchWithin(a.items[i], b.items[i], depth + 1)
       \/ /\ a.t = "object"
          /\ \E k \in KeysOf(a) \cap KeysOf(b) :
                 TypeMismatchWithin(Get(a, k), Get(b, k), depth + 1)

\* C10: for two documents that are not deep-equal, a difference of JSON type at any
\* pair of corresponding positions within the first 4 levels gives major.
C10_TypeMismatchMajor ==
    (clDone /\ ~isEqual(clNew, clOld) /\ TypeMismatchWithin(clNew, clOld, 0))
        => clOut = "major"

RECURSIVE IsSubSeq(_, _)
\* a is b with some elements left out
IsSubSeq(a, b) ==
    IF a = <<>> THEN TRUE
    ELSE IF b = <<>> THEN FALSE
    ELSE \/ a[1] = b[1] /\ IsSubSeq(Tail(a), Tail(b))
         \/ IsSubSeq(a, Tail(b))

\* the array old has lost more than 30% of its elements in new
LostOverThreshold(new, old) ==
    /\ new.t = "array"
    /\ old.t = "array"
    /\ Len(new.items) < Len(old.items)
    /\ IsSubSeq(new.items, old.items)
    /\ (Len(old.items) - Len(new.items)) * LengthRatioDen > LengthRatioNum * Len(old.items)

RECURSIVE OneArrayShrunk(_, _)
\* new is old but for one array, somewhere in the document, that has lost more than
\* 30% of its elements
OneArrayShrunk(new, old) ==
    \/ LostOverThreshold(new, old)
    \/ /\ new.t = old.t
       /\ new.t \in {"array", "object"}
       /\ new.keys = old.keys
       /\ Len(new.items) = Len(old.items)
       /\ \E i \in 1..Len(new.items) :
              /\ OneArrayShrunk(new.items[i], old.items[i])
              /\ \A j \in 1..Len(new.items) : j # i => new.items[j] = old.items[j]

\* C11: if the new document differs from the old one only in that one array, wherever
\* it is located, has lost more than 30% of its original elements, classify returns
\* major.
C11_ShrunkArrayMajor ==
    (clDone /\ OneArrayShrunk(clNew, clOld)) => clOut = "major"

IsLeaf(v) == v.t \in {"null", "boolean", "number", "string"}

RECURSIVE OneLeafChanged(_, _)
\* new is old but for the value of one leaf: every object has the same keys and every
\* array the same length as before
OneLeafChanged(new, old) ==
    \/ IsLeaf(new) /\ IsLeaf(old) /\ new # old
    \/ /\ new.t = old.t
       /\ new.t \in {"array", "object"}
       /\ new.keys = old.keys
       /\ Len(new.items) = Len(old.items)
       /\ \E i \in 1..Len(new.items) :
              /\ OneLeafChanged(new.items[i], old.items[i])
              /\ \A j \in 1..Len(new.items) : j # i => new.items[j] = old.items[j]

\* C12: if the new document differs from the old one only in the value of one leaf
\* (same key sets, same array lengths), classify returns minor.
C12_LeafChangeMinor ==
    (clDone /\ OneLeafChanged(clNew, clOld)) => clOut = "minor"

\* C13: classify returns none if and only if the two documents are deep-equal, for
\* every pair of documents, the primitive documents null, false, 0 and "" included.
C13_NoneIffDeepEqual ==
    clDone => (clOut = "none" <=> isEqual(clNew, clOld))

RECURSIVE KeySetDiffersWithin(_, _, _)
\* some pair of corresponding positions at depth <= MaxCheckDepth, reached through
\* keys and array indices, holds two objects with different key sets
KeySetDiffersWithin(a, b, depth) ==
    /\ depth <= MaxCheckDepth
    /\ a.t = b.t
    /\ a.t \in {"array", "object"}
    /\ \/ a.t = "object" /\ KeysOf(a) # KeysOf(b)
       \/ \E k \in KeysOf(a) \cap KeysOf(b) :
              KeySetDiffersWithin(GetKey(a, k), GetKey(b, k), depth + 1)

RECURSIVE SameAbove(_, _, _)
\* a and b are the same at every depth <= MaxCheckDepth: they can differ only at
\* positions deeper than that
SameAbove(a, b, depth) ==
    \/ depth > MaxCheckDepth
    \/ /\ a.t = b.t
       /\ IF a.t \in {"array", "object"}
          THEN /\ KeysOf(a) = KeysOf(b)
               /\ \A k \in KeysOf(a) : SameAbove(GetKey(a, k), GetKey(b, k), depth + 1)
          ELSE a = b

\* C26: for two documents that are not deep-equal, classify returns major whenever
\* some object within the first 4 levels (depth 0 to 3, reached through any key or
\* array index) has a different key set in the two documents, and minor whenever the
\* documents first differ at depth 4 or deeper.
C26_KeySetMajorDeepMinor ==
    (clDone /\ ~isEqual(clNew, clOld))
        => /\ KeySetDiffersWithin(clNew, clOld, 0) => clOut = "major"
           /\ SameAbove(clNew, clOld, 0) => clOut = "minor"

-----------------------------------------------------------------------------
(* GraphViewer.jsx: layoutNodes.  Coordinates are JS numbers; the model keeps *)
(* them in fixed point, Scale units to the pixel, rounding down.              *)

Scale == 1000

startX == 100
centerY == 300
levelGap == 300
minSpacing == 25
idealSpacing == 80
safeMargin == 50
\* currentSectionStart = centerY - 400
sectionTop == 400
\* currentSectionStart = max(currentSectionStart, lastNodeY + 60)
sectionGap == 60
\* while (collision && attempts < 10)
maxAttempts == 10
\* proposedY += minSpacing + 10
nudgeExtra == 10
\* horizontalDistance < 300
sameColumn == 300
\* Math.max(1, avgHeight / 50)
heightUnit == 50

baseHeight == 35
rowHeight == 24
slotHeight == 18
boxPadding == 10
tableMinHeight == 80
tableRowHeight == 25
tableHeader == 40
rootHeight == 30
defaultHeight == 50

\* getNodeHeight(node), in pixels
getNodeHeight(node) ==
    IF node.type = "complex-box"
    THEN baseHeight + Len(node.properties) * rowHeight + Len(node.slots) * slotHeight
             + boxPadding
    ELSE IF node.type = "2d-array"
    THEN IF Len(node.data.items) > 0
         THEN Max(tableMinHeight, Len(node.data.items) * tableRowHeight + tableHeader)
         ELSE tableMinHeight
    ELSE IF node.type = "root" THEN rootHeight
    ELSE defaultHeight

\* the height of the node called id, of a primitive node when there is none:
\* getNodeHeight(nodes.find(n => n.id === nodeId) || { type: 'primitive' })
HeightOfId(nodes, id) ==
    IF FindNode(nodes, id) = 0 THEN defaultHeight
    ELSE getNodeHeight(nodes[FindNode(nodes, id)])

RECURSIVE calculateLevel(_, _, _)
calculateLevel(nodes, nodeId, visited) ==
    IF nodeId \in visited THEN 0
    ELSE LET i == FindNode(nodes, nodeId)
         IN  IF i = 0 \/ nodes[i].parentId = NullId THEN 0
             ELSE calculateLevel(nodes, nodes[i].parentId, visited \cup {nodeId}) + 1

RECURSIVE ISqrtBetween(_, _, _)
\* the largest r in lo..hi with r * r <= m
ISqrtBetween(m, lo, hi) ==
    IF lo >= hi THEN lo
    ELSE CHOOSE out \in
             {IF mid * mid <= m THEN ISqrtBetween(m, mid, hi)
              ELSE ISqrtBetween(m, lo, mid - 1) : mid \in {(lo + hi + 1) \div 2}} : TRUE

\* Math.sqrt(n) in fixed point
SqrtFx(n) == ISqrtBetween(n * Scale * Scale, 0, n * Scale)

\* adaptiveSpacing for a band of n children of total height totalNodeHeight (pixels)
AdaptiveSpacing(n, totalNodeHeight) ==
    IF n > 1
    THEN LET avgHeight == (totalNodeHeight * Scale) \div n
             heightFactor == Max(Scale, avgHeight \div heightUnit)
         IN  CHOOSE out \in
                 {Max(minSpacing * Scale,
                      (((idealSpacing * Scale * Scale) \div root) * heightFactor)
                          \div Scale) : root \in {SqrtFx(n)}} : TRUE
    ELSE idealSpacing * Scale

-----------------------------------------------------------------------------
(* children.sort((a, b) => ...) of layoutNodes *)

\* s with its first occurrence of c removed: s.replace(c, '')
RemoveFirst(s, c) ==
    IF \E i \in 1..Len(s) : s[i] = c
    THEN LET i == CHOOSE i \in 1..Len(s) : s[i] = c /\ \A j \in 1..(i - 1) : s[j] # c
         IN  SubSeq(s, 1, i - 1) \o SubSeq(s, i + 1, Len(s))
    ELSE s

\* a.id.split('.').pop() || a.id.split('[').pop()?.replace(']', '') || ''
SortKey(id) ==
    IF SplitPop(id, ".") # <<>> THEN SplitPop(id, ".")
    ELSE RemoveFirst(SplitPop(id, "["), "]")

DigitValue(c) == (CHOOSE i \in 1..10 : Digits[i] = c) - 1

IsDigit(c) == \E i \in 1..10 : Digits[i] = c

RECURSIVE DigitPrefixValue(_, _, _)
\* the number the leading digits of s from position i on spell, after acc
DigitPrefixValue(s, i, acc) ==
    IF i > Len(s) \/ ~IsDigit(s[i]) THEN acc
    ELSE DigitPrefixValue(s, i + 1, acc * 10 + DigitValue(s[i]))

\* parseInt(s) of a string without sign or leading blank: NaN when s does not
\* start with a digit
ParseIntIsNaN(s) == Len(s) = 0 \/ ~IsDigit(s[1])
ParseInt(s) == DigitPrefixValue(s, 1, 0)

\* the collation order of the characters of the ids: punctuation, digits, letters;
\* a lower-case letter before its upper-case one
Collation ==
    << ".", "[", "]", "0", "1", "2", "3", "4", "5", "6", "7", "8", "9",
       "a", "A", "b", "B", "c", "C", "d", "D", "e", "E", "f", "F", "g", "G",
       "h", "H", "i", "I", "j", "J", "k", "K", "l", "L", "m", "M", "n", "N",
       "o", "O", "p", "P", "q", "Q", "r", "R", "s", "S", "t", "T", "u", "U",
       "v", "V", "w", "W", "x", "X", "y", "Y", "z", "Z" >>

CharRank(c) == CHOOSE i \in 1..Len(Collation) : Collation[i] = c

\* the primary weight: letters without their case
PrimaryRank(c) ==
    IF CharRank(c) <= 13 THEN CharRank(c) ELSE 14 + ((CharRank(c) - 14) \div 2)

\* the weight of a character: its primary weight, or its full rank
Weight(primary, c) == IF primary THEN PrimaryRank(c) ELSE CharRank(c)

RECURSIVE CompareFrom(_, _, _, _)
\* -1, 0 or 1: a against b from position i on, character by character by weight
CompareFrom(primary, a, b, i) ==
    IF i > Len(a) /\ i > Len(b) THEN 0
    ELSE IF i > Len(a) THEN -1
    ELSE IF i > Len(b) THEN 1
    ELSE IF Weight(primary, a[i]) < Weight(primary, b[i]) THEN -1
    ELSE IF Weight(primary, a[i]) > Weight(primary, b[i]) THEN 1
    ELSE CompareFrom(primary, a, b, i + 1)

\* a.localeCompare(b): by primary weights, then by case
localeCompare(a, b) ==
    IF CompareFrom(TRUE, a, b, 1) # 0 THEN CompareFrom(TRUE, a, b, 1)
    ELSE CompareFrom(FALSE, a, b, 1)

\* the comparator of children.sort, on node ids
CompareChildren(aId, bId) ==
    LET aKey == SortKey(aId)
        bKey == SortKey(bId)
    IN  IF ~ParseIntIsNaN(aKey) /\ ~ParseIntIsNaN(bKey)
        THEN ParseInt(aKey) - ParseInt(bKey)
        ELSE localeCompare(aKey, bKey)

RECURSIVE InsertChild(_, _, _, _)
\* child x (an index into nodes) put into the sorted sequence s behind every child
\* not greater than it
InsertChild(nodes, s, x, i) ==
    IF i = 0 \/ CompareChildren(nodes[s[i]].id, nodes[x].id) <= 0
    THEN SubSeq(s, 1, i) \o <<x>> \o SubSeq(s, i + 1, Len(s))
    ELSE InsertChild(nodes, s, x, i - 1)

RECURSIVE SortChildrenUpTo(_, _, _)
\* the first n children of s, sorted
SortChildrenUpTo(nodes, s, n) ==
    IF n <= 1 THEN SubSeq(s, 1, n)
    ELSE CHOOSE out \in
             {InsertChild(nodes, front, s[n], n - 1) :
                 front \in {SortChildrenUpTo(nodes, s, n - 1)}} : TRUE

\* children.sort(...): Array.prototype.sort is stable; an insertion sort
SortChildren(nodes, s) == SortChildrenUpTo(nodes, s, Len(s))

RECURSIVE InsertParent(_, _, _)
InsertParent(s, x, i) ==
    IF i = 0 \/ s[i].centerY - x.centerY <= 0
    THEN SubSeq(s, 1, i) \o <<x>> \o SubSeq(s, i + 1, Len(s))
    ELSE InsertParent(s, x, i - 1)

RECURSIVE SortParentsUpTo(_, _)
\* the first n parentInfos of s, sorted
SortParentsUpTo(s, n) ==
    IF n <= 1 THEN SubSeq(s, 1, n)
    ELSE CHOOSE out \in
             {InsertParent(front, s[n], n - 1) :
                 front \in {SortParentsUpTo(s, n - 1)}} : TRUE

\* parentInfos.sort((a, b) => a.centerY - b.centerY)
SortParents(s) == SortParentsUpTo(s, Len(s))

-----------------------------------------------------------------------------
(* layoutNodes: the level loop *)

Min(a, b) == IF a <= b THEN a ELSE b

\* the numbers of S in ascending order
SortedSeq(S) ==
    [k \in 1..Cardinality(S) |->
        CHOOSE m \in S : Cardinality({o \in S : o < m}) = k - 1]

\* node.level of each node
LevelsOf(nodes) == [i \in 1..Len(nodes) |-> calculateLevel(nodes, nodes[i].id, {})]

\* nodesByLevel[level], as indices into nodes
LevelNodes(lv, level) == SortedSeq({i \in DOMAIN lv : lv[i] = level})

\* nodesByParent[parentId], as indices into nodes
GroupOf(nodes, levelNodes, parentId) ==
    SortedSeq({levelNodes[k] : k \in {k \in 1..Len(levelNodes) :
                                        nodes[levelNodes[k]].parentId = parentId}})

\* Object.keys(nodesByParent): the parent ids in the order the level's nodes name
\* them first (no generated key is integer-like)
ParentIdsOf(nodes, levelNodes) ==
    LET firsts == {k \in 1..Len(levelNodes) :
                      \A j \in 1..(k - 1) :
                          nodes[levelNodes[j]].parentId # nodes[levelNodes[k]].parentId}
        ks == SortedSeq(firsts)
    IN  [n \in 1..Len(ks) |-> nodes[levelNodes[ks[n]]].parentId]

\* parentInfos before the sort: one entry for each parent id that names a node
ParentInfosOf(nodes, levelNodes, pos) ==
    LET ids == ParentIdsOf(nodes, levelNodes)
        found == SortedSeq({n \in 1..Len(ids) : FindNode(nodes, ids[n]) # 0})
    IN  [n \in 1..Len(found) |->
            LET parent == FindNode(nodes, ids[found[n]])
            IN  [id |-> ids[found[n]],
                 node |-> parent,
                 children |-> GroupOf(nodes, levelNodes, ids[found[n]]),
                 centerY |-> pos[parent].y
                                + (getNodeHeight(nodes[parent]) * Scale) \div 2]]

\* the cache holds a node other than id near column x whose y is within the two
\* half heights and minSpacing of proposedY
Collides(nodes, cache, id, x, height, proposedY) ==
    \E nodeId \in DOMAIN cache :
        /\ nodeId # id
        /\ Abs(x - cache[nodeId].x) < sameColumn * Scale
        /\ Abs(proposedY - cache[nodeId].y)
               < (height + HeightOfId(nodes, nodeId) * Scale) \div 2 + minSpacing * Scale

RECURSIVE AvoidCollisionBySpacing(_, _, _, _, _, _, _)
\* a search that moves the proposal down by minSpacing alone
AvoidCollisionBySpacing(nodes, cache, id, x, height, proposedY, attempts) ==
    IF attempts < maxAttempts /\ Collides(nodes, cache, id, x, height, proposedY)
    THEN AvoidCollisionBySpacing(nodes, cache, id, x, height,
                                 proposedY + minSpacing * Scale, attempts + 1)
    ELSE proposedY

RECURSIVE AvoidCollision(_, _, _, _, _, _, _)
\* the while loop: the y accepted for the child after at most maxAttempts nudges
AvoidCollision(nodes, cache, id, x, height, proposedY, attempts) ==
    IF attempts < maxAttempts /\ Collides(nodes, cache, id, x, height, proposedY)
    THEN AvoidCollision(nodes, cache, id, x, height,
                        proposedY + (minSpacing + nudgeExtra) * Scale, attempts + 1)
    ELSE proposedY

RECURSIVE PlaceChildren(_, _, _, _, _, _, _, _)
\* childrenWithHeights.forEach from the k-th child on; gives the positions
PlaceChildren(nodes, cache, x, children, k, currentY, adaptiveSpacing, pos) ==
    IF k > Len(children) THEN pos
    ELSE LET i == children[k]
             height == getNodeHeight(nodes[i]) * Scale
         IN  CHOOSE out \in
                 {PlaceChildren(nodes, cache, x, children, k + 1,
                                y + height + adaptiveSpacing, adaptiveSpacing,
                                [pos EXCEPT ![i] = [x |-> x, y |-> y]]) :
                     y \in {AvoidCollision(nodes, cache, nodes[i].id, x, height,
                                           currentY, 0)}} : TRUE

RECURSIVE SumHeights(_, _, _)
\* the heights of children k.., in pixels
SumHeights(nodes, children, k) ==
    IF k > Len(children) THEN 0
    ELSE getNodeHeight(nodes[children[k]]) + SumHeights(nodes, children, k + 1)

\* groupTotalHeight of a band
GroupTotalHeight(nodes, children) ==
    SumHeights(nodes, children, 1) * Scale
        + (IF Len(children) > 1
           THEN (Len(children) - 1)
                    * AdaptiveSpacing(Len(children), SumHeights(nodes, children, 1))
           ELSE 0)

\* a band centered on its parent wherever the bands above it end
GroupCenterYOnParent(parentIndex, parentCenterY, currentSectionStart, groupTotalHeight) ==
    parentCenterY

\* groupCenterY of the band of the parentIndex-th parent (counted from 0)
GroupCenterY(parentIndex, parentCenterY, currentSectionStart, groupTotalHeight) ==
    IF parentIndex > 0
    THEN Max(parentCenterY,
             currentSectionStart + groupTotalHeight \div 2 + safeMargin * Scale)
    ELSE parentCenterY

RECURSIVE PlaceParents(_, _, _, _, _, _, _)
RECURSIVE PlaceBand(_, _, _, _, _, _, _, _, _)

\* parentInfos.forEach from the k-th parent on; gives the positions
PlaceParents(nodes, cache, x, parentInfos, k, currentSectionStart, pos) ==
    IF k > Len(parentInfos) THEN pos
    ELSE CHOOSE out \in
             {PlaceBand(nodes, cache, x, parentInfos, k, start, pos, children,
                        GroupTotalHeight(nodes, children)) :
                 start \in {currentSectionStart},
                 children \in {SortChildren(nodes, parentInfos[k].children)}} : TRUE

\* the body for the k-th parent, with its sorted children and their
\* groupTotalHeight, followed by the parents behind it
PlaceBand(nodes, cache, x, parentInfos, k, start, pos, children, total) ==
    LET groupCenterY == GroupCenterY(k - 1, parentInfos[k].centerY, start, total)
        last == children[Len(children)]
    IN  CHOOSE out \in
            {PlaceParents(nodes, cache, x, parentInfos, k + 1,
                 Max(start,
                     (IF Len(children) > 0
                      THEN placed[last].y + getNodeHeight(nodes[last]) * Scale
                      ELSE groupCenterY) + sectionGap * Scale),
                 placed) :
                placed \in
                    {PlaceChildren(nodes, cache, x, children, 1,
                         groupCenterY - total \div 2,
                         AdaptiveSpacing(Len(children), SumHeights(nodes, children, 1)),
                         pos)}} : TRUE

RECURSIVE PlaceLevels(_, _, _, _, _, _)
\* for (let level = 1; level <= maxLevel; level++)
PlaceLevels(nodes, cache, lv, level, maxLevel, pos) ==
    IF level > maxLevel THEN pos
    ELSE CHOOSE out \in
             {PlaceLevels(nodes, cache, lv, level + 1, maxLevel, placed) :
                 placed \in
                     {PlaceParents(nodes, cache, (startX + level * levelGap) * Scale,
                          parentInfos, 1, (centerY - sectionTop) * Scale, pos) :
                         parentInfos \in
                             {SortParents(ParentInfosOf(nodes, LevelNodes(lv, level),
                                                       pos))}}} : TRUE

\* the node positions at the start of layoutNodes: the saved position of a node
\* that has one and is not laid out anew, else the x: 0, y: 0 of extractGraphData
StartPositions(nodes, forceRelayout, cache) ==
    [i \in 1..Len(nodes) |->
        IF ~forceRelayout /\ nodes[i].id \in DOMAIN cache
        THEN cache[nodes[i].id]
        ELSE [x |-> 0, y |-> 0]]

hasNewNodes(nodes, cache) == \E i \in 1..Len(nodes) : nodes[i].id \notin DOMAIN cache

\* the positions with the root nodes (level 0) placed
PlaceRoots(nodes, lv, pos) ==
    [i \in 1..Len(nodes) |->
        IF lv[i] = 0
        THEN [x |-> startX * Scale,
              y |-> centerY * Scale - (getNodeHeight(nodes[i]) * Scale) \div 2]
        ELSE pos[i]]

\* nodes.forEach(node => nodePositionsRef.current.set(node.id, ...))
SavePositions(nodes, cache, pos) ==
    LET ids == {nodes[i].id : i \in 1..Len(nodes)}
    IN  [id \in DOMAIN cache \cup ids |->
            IF id \in ids
            THEN pos[CHOOSE i \in 1..Len(nodes) :
                        nodes[i].id = id /\ \A j \in (i + 1)..Len(nodes) : nodes[j].id # id]
            ELSE cache[id]]

\* layoutNodes(nodes, forceRelayout) with nodePositionsRef.current = cache: the
\* position of each node, the cache afterwards, and whether the layout was computed
layoutNodes(nodes, forceRelayout, cache) ==
    IF ~forceRelayout /\ ~hasNewNodes(nodes, cache)
    THEN [pos |-> StartPositions(nodes, forceRelayout, cache), cache |-> cache,
          computed |-> FALSE]
    ELSE CHOOSE out \in
             {[pos |-> pos, cache |-> SavePositions(nodes, cache, pos),
               computed |-> TRUE] :
                 pos \in
                     {PlaceLevels(nodes, cache, lv, 1, MaxOver(lv, Len(nodes)),
                          PlaceRoots(nodes, lv,
                                     StartPositions(nodes, forceRelayout, cache))) :
                         lv \in {LevelsOf(nodes)}}} : TRUE

\* cleanupNodePositions(currentNodes)
cleanupNodePositions(cache, currentNodes) ==
    [id \in {id \in DOMAIN cache : \E i \in 1..Len(currentNodes) : currentNodes[i].id = id}
        |-> cache[id]]

-----------------------------------------------------------------------------
(* The store's initial document *)

initialUsers ==
    JArr(<<JObj(<<<<"i", "d">>, <<"n", "a", "m", "e">>, <<"a", "g", "e">>, <<"t", "a",
    "g", "s">>, <<"p", "r", "o", "f", "i", "l", "e">>>>, <<JNum(1), JStr(<<"A", "l", "i",
    "c", "e">>), JNum(25), JArr(<<JStr(<<"d", "e", "v", "e", "l", "o", "p", "e", "r">>),
    JStr(<<"r", "e", "a", "c", "t">>), JStr(<<"j", "a", "v", "a", "s", "c", "r", "i",
    "p", "t">>)>>), JObj(<<<<"c", "i", "t", "y">>, <<"c", "o", "u", "n", "t", "r",
    "y">>>>, <<JStr(<<"T", "o", "k", "y", "o">>), JStr(<<"J", "a", "p", "a",
    "n">>)>>)>>), JObj(<<<<"i", "d">>, <<"n", "a", "m", "e">>, <<"a", "g", "e">>, <<"t",
    "a", "g", "s">>, <<"p", "r", "o", "f", "i", "l", "e">>>>, <<JNum(2), JStr(<<"B", "o",
    "b">>), JNum(30), JArr(<<JStr(<<"d", "e", "s", "i", "g", "n", "e", "r">>),
    JStr(<<"u", "i", "/", "u", "x">>), JStr(<<"f", "i", "g", "m", "a">>)>>),
    JObj(<<<<"c", "i", "t", "y">>, <<"c", "o", "u", "n", "t", "r", "y">>>>, <<JStr(<<"S",
    "e", "o", "u", "l">>), JStr(<<"K", "o", "r", "e", "a">>)>>)>>)>>)

initialSimpleArray ==
    JArr(<<JStr(<<"a", "p", "p", "l", "e">>), JStr(<<"b", "a", "n", "a", "n", "a">>),
    JStr(<<"c", "h", "e", "r", "r", "y">>)>>)

initialNumberArray ==
    JArr(<<JNum(1), JNum(2), JNum(3), JNum(4), JNum(5)>>)

initialMixedArray ==
    JArr(<<JStr(<<"t", "e", "x", "t">>), JNum(42), JBool(TRUE), JNull>>)

initialNestedArray ==
    JArr(<<JArr(<<JStr(<<"a">>), JStr(<<"b">>)>>), JArr(<<JStr(<<"c">>),
    JStr(<<"d">>)>>), JArr(<<JStr(<<"e">>), JStr(<<"f">>)>>)>>)

initialProducts ==
    JArr(<<JArr(<<JStr(<<"l", "a", "p", "t", "o", "p">>), JNum(1000), JNum(5)>>),
    JArr(<<JStr(<<"m", "o", "u", "s", "e">>), JNum(25), JNum(100)>>), JArr(<<JStr(<<"k",
    "e", "y", "b", "o", "a", "r", "d">>), JNum(75), JNum(50)>>)>>)

initialSettings ==
    JObj(<<<<"t", "h", "e", "m", "e">>, <<"n", "o", "t", "i", "f", "i", "c", "a", "t",
    "i", "o", "n", "s">>, <<"f", "e", "a", "t", "u", "r", "e", "s">>, <<"l", "i", "m",
    "i", "t", "s">>>>, <<JStr(<<"d", "a", "r", "k">>), JBool(TRUE), JArr(<<JStr(<<"c",
    "h", "a", "t">>), JStr(<<"v", "i", "d", "e", "o">>), JStr(<<"s", "c", "r", "e", "e",
    "n", "-", "s", "h", "a", "r", "e">>)>>), JObj(<<<<"m", "a", "x", "U", "s", "e", "r",
    "s">>, <<"m", "a", "x", "F", "i", "l", "e", "s">>>>, <<JNum(100), JNum(1000)>>)>>)

initialSimpleValue ==
    JStr(<<"H", "e", "l", "l", "o", " ", "W", "o", "r", "l", "d">>)

initialNumberValue ==
    JNum(42)

initialBooleanValue ==
    JBool(TRUE)

\* const initialData = { users, simpleArray, ..., booleanValue }
initialData ==
    JObj(<<<<"u", "s", "e", "r", "s">>, <<"s", "i", "m", "p", "l", "e", "A", "r", "r",
           "a", "y">>, <<"n", "u", "m", "b", "e", "r", "A", "r", "r", "a", "y">>, <<"m",
           "i", "x", "e", "d", "A", "r", "r", "a", "y">>, <<"n", "e", "s", "t", "e", "d",
           "A", "r", "r", "a", "y">>, <<"p", "r", "o", "d", "u", "c", "t", "s">>, <<"s",
           "e", "t", "t", "i", "n", "g", "s">>, <<"s", "i", "m", "p", "l", "e", "V", "a",
           "l", "u", "e">>, <<"n", "u", "m", "b", "e", "r", "V", "a", "l", "u", "e">>,
           <<"b", "o", "o", "l", "e", "a", "n", "V", "a", "l", "u", "e">>>>,
         <<initialUsers, initialSimpleArray, initialNumberArray, initialMixedArray,
           initialNestedArray, initialProducts, initialSettings, initialSimpleValue,
           initialNumberValue, initialBooleanValue>>)

-----------------------------------------------------------------------------
(* GraphViewer: memos, render pass, handlers *)

kAObj == JObj(<<kA>>, <<JObj(<<>>, <<>>)>>)
kANum == JObj(<<kA>>, <<JNum(1)>>)
kABObj == JObj(<<kA, kB>>, <<JObj(<<>>, <<>>), JObj(<<>>, <<>>)>>)

\* the documents the editors hand to updateJsonData
ViewDocs == {initialData, kAObj, kANum, kABObj}

\* zoomStateRef.current = null (a d3 transform has k >= 0.1)
NullTransform == [k |-> 0, x |-> 0, y |-> 0]

\* d3.zoomIdentity
zoomIdentity == [k |-> Scale, x |-> 0, y |-> 0]

\* event.transform of the pan/zoom gestures
ZoomGestures == {[k |-> 2 * Scale, x |-> 0 - 40 * Scale, y |-> 30 * Scale]}

\* event.x, event.y at the end of the drags
DragPositions == {[x |-> 50 * Scale, y |-> 50 * Scale]}

\* useMemo graphData, by document
graphData == [d \in ViewDocs |-> IF Truthy(d) THEN extractGraphData(d) ELSE NoGraph]

\* useMemo changeType, evaluated after the graphData memo has stored the
\* document in previousDataRef
changeTypeMemo(doc, previous) ==
    IF ~Truthy(previous) THEN "major" ELSE detectStructureChange(doc, previous)

\* previousDataRef.current after the graphData memo ran for doc
PreviousAfterMemo(doc, previous) == IF Truthy(doc) THEN doc ELSE previous

\* the renderGraph closure of one React render: the values it captured
Closure(doc, ct) == [jsonData |-> doc, changeType |-> ct]

\* a pass that draws every graph untransformed
RestoredTransformNone(zoom) == zoomIdentity

\* currentTransform = zoomStateRef.current || d3.zoomIdentity, put on the new container
RestoredTransform(zoom) == IF zoom = NullTransform THEN zoomIdentity ELSE zoom

\* renderGraph() of the closure c, started with previousDataRef.current = previous,
\* nodePositionsRef.current = cache and zoomStateRef.current = zoom
renderGraph(c, previous, cache, zoom, cause) ==
    \E nodes \in {graphData[c.jsonData].nodes} :
    \E before \in {cleanupNodePositions(cache, nodes)} :
    \E layout \in {layoutNodes(nodes, c.changeType = "major", before)} :
        IF Len(nodes) = 0
        THEN /\ previousDataRef' = previous
             /\ nodePositionsRef' = cache
             /\ zoomStateRef' = zoom
             /\ UNCHANGED <<drawn, lastPass>>
        ELSE /\ nodePositionsRef' = layout.cache
             /\ previousDataRef' = c.jsonData
             /\ zoomStateRef' = zoom
             /\ drawn' = [doc |-> c.jsonData,
                          pos |-> layout.pos,
                          transform |-> RestoredTransform(zoom)]
             /\ lastPass' = [cause |-> cause,
                             prevDoc |-> drawn.doc,
                             forceRelayout |-> c.changeType = "major",
                             before |-> before,
                             pos |-> layout.pos,
                             computed |-> layout.computed,
                             transform |-> RestoredTransform(zoom)]

\* the dropped positions of the nodes that still exist among nodes
StillExisting(drops, nodes) ==
    [id \in {id \in DOMAIN drops : \E i \in 1..Len(nodes) : nodes[i].id = id} |-> drops[id]]

\* the component after it mounted on the store's initial document and its first
\* render pass drew it
Init ==
    /\ ExtractIdle
    /\ ClassifyIdle
    /\ EditorIdle
    /\ StoreIdle
    /\ TableIdle
    /\ AnchorIdle
    /\ jsonData = initialData
    /\ selectedPath = <<>>
    /\ selectedData = JNull
    /\ clicked = <<>>
    /\ dropped = <<>>
    /\ updateCount = 0
    /\ previousDataRef = initialData
    /\ changeType = changeTypeMemo(initialData, PreviousAfterMemo(initialData, JNull))
    /\ timers = <<>>
    /\ zoomStateRef = NullTransform
    /\ \E layout \in {layoutNodes(graphData[initialData].nodes, changeType = "major",
                                   <<>>)} :
           /\ nodePositionsRef = layout.cache
           /\ drawn = [doc |-> initialData, pos |-> layout.pos, transform |-> zoomIdentity]
           /\ lastPass = [cause |-> "mount", prevDoc |-> JNull,
                          forceRelayout |-> changeType = "major", before |-> <<>>,
                          pos |-> layout.pos, computed |-> layout.computed,
                          transform |-> zoomIdentity]

\* updateJsonData(d) of the store, the re-render it causes (both memos) and the
\* effect that calls renderGraph
UpdateJsonData(d) ==
    \E previous \in {PreviousAfterMemo(d, previousDataRef)} :
    \E ct \in {changeTypeMemo(d, previous)} :
        /\ updateCount < MaxUpdates
        /\ jsonData' = d
        /\ updateCount' = updateCount + 1
        /\ changeType' = ct
        /\ \E c \in {Closure(d, ct)} :
               renderGraph(c, previous, nodePositionsRef, zoomStateRef, "update")
        /\ dropped' = StillExisting(dropped, graphData[d].nodes)
        /\ lastUpdate' = Now
        /\ selectedTableData' = RefreshedTableData(d, selectedTable, selectedTableData)
        /\ \E source \in {"json-editor", "table-editor"} :
               errors' = ClearedErrors(errors, source)
        /\ UNCHANGED <<timers, selVars, exVars, clVars, edVars, selectedTable, selectedType,
                       activeEditor, tbVars, cpVars>>

\* handleResize: setTimeout(renderGraph, 100) with the renderGraph of the
\* current render
Resize ==
    /\ Len(timers) < MaxTimers
    /\ timers' = Append(timers, Closure(jsonData, changeType))
    /\ UNCHANGED <<jsonData, updateCount, previousDataRef, nodePositionsRef, zoomStateRef, changeType,
                   drawn, lastPass, selVars, dropped, exVars, clVars, edVars, stVars, lastUpdate, tbVars, cpVars>>

\* the oldest pending timeout fires and calls the renderGraph it was given
TimerFire ==
    /\ timers # <<>>
    /\ timers' = Tail(timers)
    /\ \E c \in {Head(timers)} :
           renderGraph(c, previousDataRef, nodePositionsRef, zoomStateRef, "resize")
    /\ UNCHANGED <<jsonData, updateCount, changeType, selVars, dropped, exVars, clVars, edVars, stVars, lastUpdate, tbVars, cpVars>>

\* one drag gesture on the i-th drawn node: the drag events move the node, the
\* end event stores where it was dropped
DragEnd(i, p) ==
    LET nodes == graphData[drawn.doc].nodes
    IN  /\ i \in 1..Min(Len(nodes), MaxDragNode)
        /\ drawn' = [drawn EXCEPT !.pos[i] = p]
        /\ nodePositionsRef' =
               [id \in DOMAIN nodePositionsRef \cup {nodes[i].id} |->
                   IF id = nodes[i].id THEN p ELSE nodePositionsRef[id]]
        /\ dropped' = [id \in DOMAIN dropped \cup {nodes[i].id} |->
                           IF id = nodes[i].id THEN p ELSE dropped[id]]
        /\ UNCHANGED <<jsonData, updateCount, previousDataRef, zoomStateRef, changeType, timers,
                       lastPass, selVars, exVars, clVars, edVars, stVars, lastUpdate, tbVars, cpVars>>

\* the zoom handler of a pan/zoom gesture
Zoom(t) ==
    /\ zoomStateRef' = t
    /\ drawn' = [drawn EXCEPT !.transform = t]
    /\ UNCHANGED <<jsonData, updateCount, previousDataRef, nodePositionsRef, changeType, timers,
                   lastPass, selVars, dropped, exVars, clVars, edVars, stVars, lastUpdate, tbVars, cpVars>>

\* onClick of the relayout button: clear the cache, reset the zoom state, render
RelayoutClick ==
    /\ \E c \in {Closure(jsonData, changeType)} :
           renderGraph(c, previousDataRef, <<>>, NullTransform, "relayout")
    /\ dropped' = <<>>
    /\ UNCHANGED <<jsonData, updateCount, changeType, timers, selVars, exVars, clVars, edVars, stVars, lastUpdate, tbVars, cpVars>>

\* the kind of drawn node renderNodeContent tells apart
NodeClass(node) ==
    CASE node.type = "root" -> "root"
      [] node.type = "2d-array" -> "table"
      [] node.type = "complex-box" -> "composite"
      [] OTHER -> "primitive"

\* the clicks take the first drawn node of each kind
ClickTargets(nodes) ==
    {i \in 1..Len(nodes) :
        \A j \in 1..(i - 1) : NodeClass(nodes[j]) # NodeClass(nodes[i])}

\* updatePathSelection(path, data) of the store: the path, a copy of the data and
\* its type; an array is also made the selected table
updatePathSelection(path, data) ==
    /\ selectedPath' = path
    /\ selectedData' = data
    /\ selectedType' = IF IsArray(data) THEN "array"
                       ELSE IF Truthy(data) /\ TypeOf(data) = "object" THEN "object"
                       ELSE "primitive"
    /\ IF IsArray(data)
       THEN selectedTable' = path /\ selectedTableData' = data
       ELSE UNCHANGED <<selectedTable, selectedTableData>>

\* updateTableSelection(tableName, tableData) of the store
updateTableSelection(tableName, data) ==
    /\ selectedTable' = tableName
    /\ selectedTableData' = IF IsArray(data) THEN data ELSE JArr(<<>>)
    /\ selectedPath' = tableName
    /\ selectedData' = IF IsArray(data) THEN data ELSE JNull
    /\ selectedType' = IF IsArray(data) THEN "array" ELSE NoType

\* the click handler of a table or composite node's rect: updatePathSelection, and
\* for an array updateTableSelection, which writes the same values again
selectNode(node) ==
    /\ updatePathSelection(node.id, node.data)
    /\ IF IsArray(node.data) THEN updateTableSelection(node.id, node.data) ELSE TRUE

\* a click on the i-th drawn node: the click handler renderNodeContent attached to
\* a table or composite node's rect; a root or primitive node has none
Click(i) ==
    LET nodes == graphData[drawn.doc].nodes
    IN  /\ i \in ClickTargets(nodes)
        /\ clicked' = [id |-> nodes[i].id, data |-> nodes[i].data]
        /\ IF NodeClass(nodes[i]) \in {"table", "composite"}
           THEN selectNode(nodes[i])
           ELSE UNCHANGED <<selectedPath, selectedData, selectedTable, selectedTableData,
                            selectedType>>
        /\ UNCHANGED <<jsonData, updateCount, previousDataRef, nodePositionsRef, zoomStateRef,
                       changeType, timers, drawn, lastPass, dropped, exVars, clVars, edVars,
                       activeEditor, errors, lastUpdate, tbVars, cpVars>>

Next ==
    \/ \E d \in ViewDocs : UpdateJsonData(d)
    \/ Resize
    \/ TimerFire
    \/ \E i \in 1..MaxDragNode, p \in DragPositions : DragEnd(i, p)
    \/ \E t \in ZoomGestures : Zoom(t)
    \/ RelayoutClick

Spec == Init /\ [][Next]_vars

\* the documents of the updates between clicks
ClickDocs == {kANum}

\* the viewer with the clicks on its nodes
NextClick ==
    \/ \E d \in ClickDocs : UpdateJsonData(d)
    \/ Resize
    \/ TimerFire
    \/ \E i \in 1..MaxDragNode, p \in DragPositions : DragEnd(i, p)
    \/ \E t \in ZoomGestures : Zoom(t)
    \/ RelayoutClick
    \/ \E i \in 1..Len(graphData[drawn.doc].nodes) : Click(i)

SpecClick == Init /\ [][NextClick]_vars

-----------------------------------------------------------------------------
(* Properties of the render passes, under Spec *)

\* the nodes of the most recent render pass
PassNodes == graphData[drawn.doc].nodes

\* C1: on a render pass whose layout runs with forceRelayout = false while some
\* node has no cached position, every node that has a cached position keeps
\* exactly that position.
C1_CachedPositionsKept ==
    (~lastPass.forceRelayout /\ hasNewNodes(PassNodes, lastPass.before))
        => \A i \in 1..Len(PassNodes) :
               PassNodes[i].id \in DOMAIN lastPass.before
                   => lastPass.pos[i] = lastPass.before[PassNodes[i].id]

\* C2: when the document of an update is classified major relative to the
\* document that was drawn before it, the render pass of the update computes the
\* coordinates of all nodes anew (what layout with forceRelayout = true does)
\* instead of reusing cached positions.
C2_MajorForcesRelayout ==
    (/\ lastPass.cause = "update"
     /\ detectStructureChange(drawn.doc, lastPass.prevDoc) = "major")
        => lastPass.computed

\* C5: once no timer is pending, the graph drawn last is the graph of the store's
\* current document.
C5_DrawnIsCurrent == timers = <<>> => drawn.doc = jsonData


\* the ids of the nodes
IdsOf(nodes) == {nodes[i].id : i \in 1..Len(nodes)}

\* C15: after every completed render pass the position cache holds an entry for
\* exactly the node ids of the current document's extraction, and each entry is the
\* position at which that node was drawn.
C15_CacheIsDrawnPositions ==
    /\ DOMAIN nodePositionsRef = IdsOf(graphData[jsonData].nodes)
    /\ \A i \in 1..Len(PassNodes) :
           PassNodes[i].id \in DOMAIN nodePositionsRef
               => nodePositionsRef[PassNodes[i].id] = drawn.pos[i]

\* C17: in every render pass caused by a document update, a node whose id has a
\* dropped position (stored by the end of a drag, no relayout since, the node in
\* every document since) is drawn at that position.
C17_DroppedPositionKept ==
    lastPass.cause = "update"
        => \A i \in 1..Len(PassNodes) :
               PassNodes[i].id \in DOMAIN dropped
                   => drawn.pos[i] = dropped[PassNodes[i].id]

-----------------------------------------------------------------------------
(* Properties of the viewer with its clicks, under SpecClick *)

\* C16: the viewport transform is left unchanged by document updates, window resizes,
\* node drags and node clicks; it changes only on a pan/zoom gesture or on the
\* relayout action.
C16_TransformKept ==
    [][drawn'.transform # drawn.transform
           => \/ \E t \in ZoomGestures : Zoom(t)
              \/ RelayoutClick]_vars

\* a pass caused by a document update drew the graph under the transform of an
\* earlier gesture, after a drag and a click
C16_Witness ==
    /\ lastPass.cause = "update"
    /\ lastPass.transform \in ZoomGestures
    /\ drawn.transform = lastPass.transform
    /\ clicked # <<>>
    /\ dropped # <<>>

\* C18: a click on any drawn node (root, primitive, composite or table) sets the
\* store's selected path to the node's id and the selected data to its raw value,
\* and changes neither the document nor the position cache.
C18_ClickSelects ==
    [][clicked' # clicked
           => /\ selectedPath' = clicked'.id
              /\ selectedData' = clicked'.data
              /\ jsonData' = jsonData
              /\ nodePositionsRef' = nodePositionsRef]_vars

-----------------------------------------------------------------------------
(* layoutNodes as a function: two consecutive passes over newly extracted   *)
(* documents, the flag forceRelayout chosen freely                          *)

LayoutValues ==
    {JNum(1), JObj(<<>>, <<>>), JArr(<<JArr(<<JNum(1)>>)>>), JObj(<<kB>>, <<JObj(<<>>, <<>>)>>)}

\* the documents of the first pass
LayoutDocs == Objects({kA, kB, JSONId}, LayoutValues, MaxKeys)

\* {"a": {"b": [[], [], [], [], [], []]}, "b": {"b": [[], [], [], [], [], []]}}: two
\* parents at one level, each with a band taller than the parents are apart
TablesDoc ==
    JObj(<<kA, kB>>,
         <<JObj(<<kB>>, <<JArr([n \in 1..6 |-> JArr(<<>>)])>>),
           JObj(<<kB>>, <<JArr([n \in 1..6 |-> JArr(<<>>)])>>)>>)

\* the documents of a second pass over another document
SecondDocs ==
    {JObj(<<kA, kB>>, <<JObj(<<>>, <<>>), JObj(<<>>, <<>>)>>),
     JObj(<<JSONId>>, <<JNum(1)>>),
     TablesDoc}

\* {"a": [0, 0, {}, 0, 0, 0, 0, 0, 0, 0, {}]}: the elements 2 and 10 of an array
\* are nodes
ElementsDoc ==
    JObj(<<kA>>,
         <<JArr([n \in 1..11 |-> IF n \in {3, 11} THEN JObj(<<>>, <<>>) ELSE JNum(0)])>>)

InitLayout ==
    /\ ExtractIdle
    /\ ClassifyIdle
    /\ StoreIdle
    /\ TableIdle
    /\ AnchorIdle
    /\ jsonData \in LayoutDocs \cup {ElementsDoc, TablesDoc}
    /\ updateCount = 0
    /\ previousDataRef = JNull
    /\ nodePositionsRef = <<>>
    /\ zoomStateRef = 0
    /\ changeType = "none"
    /\ timers = <<>>
    /\ drawn = <<>>
    /\ lastPass = <<>>
    /\ selectedPath = <<>>
    /\ selectedData = JNull
    /\ clicked = <<>>
    /\ dropped = <<>>
    /\ EditorIdle

\* the first lines of renderGraph for the newly extracted document d:
\* cleanupNodePositions(nodes), then layoutNodes(nodes, forceRelayout)
LayoutPass(d, forceRelayout, cause) ==
    \E nodes \in {extractGraphData(d).nodes} :
    \E before \in {cleanupNodePositions(nodePositionsRef, nodes)} :
    \E layout \in {layoutNodes(nodes, forceRelayout, before)} :
        /\ jsonData' = d
        /\ nodePositionsRef' = layout.cache
        /\ drawn' = [doc |-> d, pos |-> layout.pos, transform |-> zoomIdentity]
        /\ lastPass' = [cause |-> cause,
                        prevDoc |-> IF drawn = <<>> THEN JNull ELSE drawn.doc,
                        forceRelayout |-> forceRelayout,
                        before |-> before,
                        pos |-> layout.pos,
                        computed |-> layout.computed,
                        prevPos |-> IF drawn = <<>> THEN <<>> ELSE drawn.pos,
                        prevForce |-> IF lastPass = <<>> THEN FALSE
                                      ELSE lastPass.forceRelayout]
        /\ UNCHANGED <<updateCount, previousDataRef, zoomStateRef, changeType, timers,
                       selVars, dropped, exVars, clVars, edVars, stVars, lastUpdate, tbVars, cpVars>>

\* the first pass, over the extraction of the document
FirstLayout(forceRelayout) ==
    /\ lastPass = <<>>
    /\ LayoutPass(jsonData, forceRelayout, "first")

\* a second pass over the same extraction, without forceRelayout
LayoutAgain ==
    /\ lastPass # <<>>
    /\ lastPass.cause = "first"
    /\ LayoutPass(jsonData, FALSE, "again")

\* a second pass, over the extraction of another document
LayoutOther(d, forceRelayout) ==
    /\ lastPass # <<>>
    /\ lastPass.cause = "first"
    /\ d # jsonData
    /\ LayoutPass(d, forceRelayout, "other")

NextLayout ==
    \/ \E forceRelayout \in BOOLEAN : FirstLayout(forceRelayout)
    \/ LayoutAgain
    \/ \E d \in SecondDocs, forceRelayout \in BOOLEAN : LayoutOther(d, forceRelayout)

SpecLayout == InitLayout /\ [][NextLayout]_vars

-----------------------------------------------------------------------------
(* Properties of layoutNodes, under SpecLayout *)

\* C14: running layout with forceRelayout=false twice on the extraction of the same
\* document, with nothing in between, gives every node the same position after the
\* second run as after the first.
C14_LayoutIdempotent ==
    (/\ lastPass # <<>>
     /\ lastPass.cause = "again"
     /\ ~lastPass.prevForce)
        => \A i \in 1..Len(lastPass.pos) : lastPass.pos[i] = lastPass.prevPos[i]

\* the nodes of the last pass
LaidOut == extractGraphData(drawn.doc).nodes

\* the last maxAttempts proposals above the node's final y all collided: the final
\* position shows no more of an exhausted retry budget
MayBeExhausted(nodes, i) ==
    \A k \in 1..maxAttempts :
        Collides(nodes, lastPass.before, nodes[i].id, lastPass.pos[i].x,
                 getNodeHeight(nodes[i]) * Scale,
                 lastPass.pos[i].y - k * (minSpacing + nudgeExtra) * Scale)

\* the extents [y, y + height] of nodes i and j lie minSpacing or more apart
Separated(nodes, i, j) ==
    LET top(n) == lastPass.pos[n].y
        bottom(n) == lastPass.pos[n].y + getNodeHeight(nodes[n]) * Scale
    IN  \/ bottom(i) + minSpacing * Scale <= top(j)
        \/ bottom(j) + minSpacing * Scale <= top(i)

\* C19: after a layout pass with forceRelayout=true, any two distinct nodes of the
\* same level whose x positions are within the same-column threshold have vertical
\* extents at least the minimum spacing apart, unless the retry budget was exhausted
\* for one of them.
C19_SameColumnSeparated ==
    (lastPass # <<>> /\ lastPass.forceRelayout)
        => \E nodes \in {LaidOut} : \E lv \in {LevelsOf(nodes)} :
               \A i, j \in 1..Len(nodes) :
                   (/\ i # j
                    /\ lv[i] = lv[j]
                    /\ Abs(lastPass.pos[i].x - lastPass.pos[j].x) < sameColumn * Scale)
                       => \/ Separated(nodes, i, j)
                          \/ MayBeExhausted(nodes, i)
                          \/ MayBeExhausted(nodes, j)


\* the index of node i as an element of its parent's array, or -1
ElementIndex(nodes, i) ==
    LET p == FindNode(nodes, nodes[i].parentId)
        hits == IF p # 0 /\ nodes[p].data.t = "array"
                THEN {n \in 1..Len(nodes[p].data.items) :
                         nodes[i].id = nodes[i].parentId \o IndexKey(n - 1)}
                ELSE {}
    IN  IF hits = {} THEN -1 ELSE (CHOOSE n \in hits : TRUE) - 1

\* the keys of the parent's object under which node i can lie
OwnKeys(nodes, i) ==
    LET p == FindNode(nodes, nodes[i].parentId)
    IN  IF p # 0 /\ nodes[p].data.t = "object"
        THEN {nodes[p].data.keys[k] : k \in {k \in 1..Len(nodes[p].data.keys) :
                 \/ nodes[i].id = nodes[i].parentId \o <<".">> \o nodes[p].data.keys[k]
                 \/ nodes[p].type = "root" /\ nodes[i].id = nodes[p].data.keys[k]}}
        ELSE {}

\* a key that is a decimal number
IsNumericKey(key) == key # <<>> /\ \A c \in 1..Len(key) : IsDigit(key[c])

\* key a comes before key b: numerically when both are numeric, else as strings
KeyBefore(a, b) ==
    IF IsNumericKey(a) /\ IsNumericKey(b) THEN ParseInt(a) < ParseInt(b)
    ELSE localeCompare(a, b) < 0

\* C23: within one parent's band, layout orders the children top to bottom by their
\* own key or index: array elements by ascending numeric index (element 2 above
\* element 10), children under object keys numerically when both keys are numeric,
\* lexicographically otherwise.
C23_ChildrenOrdered ==
    (lastPass # <<>> /\ lastPass.computed)
        => \E nodes \in {LaidOut} : \E lv \in {LevelsOf(nodes)} :
               \A i, j \in 1..Len(nodes) :
                   (/\ i # j
                    /\ lv[i] > 0
                    /\ lv[i] = lv[j]
                    /\ nodes[i].parentId = nodes[j].parentId)
                       => /\ (/\ ElementIndex(nodes, i) >= 0
                               /\ ElementIndex(nodes, i) < ElementIndex(nodes, j))
                                  => lastPass.pos[i].y < lastPass.pos[j].y
                          /\ \A a \in OwnKeys(nodes, i), b \in OwnKeys(nodes, j) :
                                 KeyBefore(a, b) => lastPass.pos[i].y < lastPass.pos[j].y

\* the band of a parent at a level: the nodes of the level that name it as parentId
BandOf(nodes, lv, level, parentId) ==
    {i \in 1..Len(nodes) : lv[i] = level /\ nodes[i].parentId = parentId}

\* the top and the bottom of the vertical range a band spans
BandTop(band) ==
    CHOOSE y \in {lastPass.pos[i].y : i \in band} :
        \A i \in band : y <= lastPass.pos[i].y

BandBottom(nodes, band) ==
    CHOOSE y \in {lastPass.pos[i].y + getNodeHeight(nodes[i]) * Scale : i \in band} :
        \A i \in band : y >= lastPass.pos[i].y + getNodeHeight(nodes[i]) * Scale

\* the ids of the parents that have a band at the level, in the order of parentInfos
\* after its sort
SortedParentIds(nodes, lv, level) ==
    LET parentInfos == SortParents(ParentInfosOf(nodes, LevelNodes(lv, level),
                                                 lastPass.pos))
    IN  [k \in 1..Len(parentInfos) |-> parentInfos[k].id]

\* no child was nudged in the last pass: the positions are those of a layout over an
\* empty cache
PassWithoutNudge == lastPass.pos = layoutNodes(LaidOut, TRUE, <<>>).pos

SortedBands(nodes, lv, level) ==
    LET parentInfos == SortParents(ParentInfosOf(nodes, LevelNodes(lv, level),
                                                 lastPass.pos))
    IN  [k \in 1..Len(parentInfos) |->
            [centerY |-> parentInfos[k].centerY,
             children |-> SortChildren(nodes, parentInfos[k].children)]]

RECURSIVE SectionStart(_, _, _)
\* currentSectionStart when the k-th band of the level is placed, from where the
\* last pass put the bands before it
SectionStart(nodes, bands, k) ==
    IF k = 1 THEN (centerY - sectionTop) * Scale
    ELSE LET last == bands[k - 1].children[Len(bands[k - 1].children)]
         IN  Max(SectionStart(nodes, bands, k - 1),
                 lastPass.pos[last].y + getNodeHeight(nodes[last]) * Scale
                     + sectionGap * Scale)

\* the y proposed for the c-th child of the k-th band before the collision search
ProposedY(nodes, bands, k, c) ==
    LET children == bands[k].children
        total == GroupTotalHeight(nodes, children)
    IN  IF c = 1
        THEN GroupCenterY(k - 1, bands[k].centerY, SectionStart(nodes, bands, k), total)
                 - total \div 2
        ELSE lastPass.pos[children[c - 1]].y
                 + getNodeHeight(nodes[children[c - 1]]) * Scale
                 + AdaptiveSpacing(Len(children), SumHeights(nodes, children, 1))

\* how far below its proposed y the c-th child of the k-th band was put
NudgedBy(nodes, bands, k, c) ==
    lastPass.pos[bands[k].children[c]].y - ProposedY(nodes, bands, k, c)

\* C25: the collision-avoidance search for one child makes at most 10 attempts, each
\* moving the proposed y downward by the same fixed increment and never upward; when
\* the attempts are exhausted the last proposed y is accepted, and a layout pass ends
\* with a position for every node of every finite node set, a single-node graph
\* included.
C25_BoundedNudges ==
    (lastPass # <<>> /\ lastPass.computed)
        => \E nodes \in {LaidOut} : \E lv \in {LevelsOf(nodes)} :
               /\ DOMAIN lastPass.pos = 1..Len(nodes)
               /\ \A level \in 1..MaxOver(lv, Len(nodes)) :
                  \E bands \in {SortedBands(nodes, lv, level)} :
                      \A k \in 1..Len(bands) : \A c \in 1..Len(bands[k].children) :
                          NudgedBy(nodes, bands, k, c)
                              \in {n * (minSpacing + nudgeExtra) * Scale :
                                       n \in 0..maxAttempts}

\* a pass in which the search for some child used up its attempts
C25_Witness ==
    /\ lastPass # <<>>
    /\ lastPass.computed
    /\ \E nodes \in {LaidOut} : \E lv \in {LevelsOf(nodes)} :
           \E level \in 1..MaxOver(lv, Len(nodes)) :
           \E bands \in {SortedBands(nodes, lv, level)} :
               \E k \in 1..Len(bands) : \E c \in 1..Len(bands[k].children) :
                   NudgedBy(nodes, bands, k, c)
                       = maxAttempts * (minSpacing + nudgeExtra) * Scale

-----------------------------------------------------------------------------
(* JsonEditor_v2.jsx: the JSON editor and the store.  A text is the value it *)
(* parses to and whether it is laid out the way JSON.stringify(v, null, 2)   *)
(* lays it out, or a text that does not parse, or a blank text.  An object   *)
(* of the store is told from an equal one by the update that brought it.     *)

\* JSON.stringify(data, null, 2)
formatJson(data) == [kind |-> "json", data |-> data, pretty |-> TRUE]

\* a text that parses to data and is not laid out as formatJson lays it out
Compact(data) == [kind |-> "json", data |-> data, pretty |-> FALSE]

\* a text with a syntax error, and a text of blanks
InvalidText == [kind |-> "invalid", data |-> JNull, pretty |-> FALSE]
BlankText == [kind |-> "empty", data |-> JNull, pretty |-> FALSE]

\* validateJson(text): the parsed value; null for a blank text, for a syntax error
\* and for the text null
validateJson(text) == IF text.kind = "json" THEN text.data ELSE JNull

\* the texts {} and what the user types
EmptyObjectText == Compact(JObj(<<>>, <<>>))

TypedTexts ==
    {Compact(kAObj), formatJson(kABObj), formatJson(JNull), EmptyObjectText,
     InvalidText, BlankText}

\* the documents the other editors store
ExternalDocs == {kAObj, kANum}

\* a value held by a reference: the value and the update that brought it
Ref(data, stamp) == [data |-> data, stamp |-> stamp]

\* a !== b
NotSame(a, b) ==
    IF a.data.t \in {"object", "array"} \/ b.data.t \in {"object", "array"}
    THEN a.stamp # b.stamp
    ELSE a.data # b.data

\* Object.keys(v).length of a value that is not null
KeyCount(v) ==
    CASE v.t \in {"array", "object"} -> Len(v.items)
      [] v.t = "string" -> Len(v.s)
      [] OTHER -> 0

\* App.jsx: the sampleData of the effect that loads the example document; a
\* character outside ASCII is written as its code point
sampleData ==
    JObj(<<<<"u", "s", "e", "r", "s">>, <<"p", "r", "o", "d", "u", "c", "t", "s">>,
    <<"s", "e", "t", "t", "i", "n", "g", "s">>>>, <<JArr(<<JObj(<<<<"i", "d">>, <<"n",
    "a", "m", "e">>, <<"e", "m", "a", "i", "l">>, <<"a", "g", "e">>>>, <<JNum(1),
    JStr(<<"U+5F35", "U+4E09">>), JStr(<<"z", "h", "a", "n", "g", "@", "e", "x", "a",
    "m", "p", "l", "e", ".", "c", "o", "m">>), JNum(25)>>), JObj(<<<<"i", "d">>, <<"n",
    "a", "m", "e">>, <<"e", "m", "a", "i", "l">>, <<"a", "g", "e">>>>, <<JNum(2),
    JStr(<<"U+674E", "U+56DB">>), JStr(<<"l", "i", "@", "e", "x", "a", "m", "p", "l",
    "e", ".", "c", "o", "m">>), JNum(30)>>)>>), JArr(<<JObj(<<<<"i", "d">>, <<"n", "a",
    "m", "e">>, <<"p", "r", "i", "c", "e">>, <<"c", "a", "t", "e", "g", "o", "r",
    "y">>>>, <<JNum(1), JStr(<<"U+7B46", "U+8A18", "U+672C", "U+96FB", "U+8166">>),
    JNum(15000), JStr(<<"U+96FB", "U+5B50", "U+7522", "U+54C1">>)>>), JObj(<<<<"i",
    "d">>, <<"n", "a", "m", "e">>, <<"p", "r", "i", "c", "e">>, <<"c", "a", "t", "e",
    "g", "o", "r", "y">>>>, <<JNum(2), JStr(<<"U+8FA6", "U+516C", "U+6905">>),
    JNum(3000), JStr(<<"U+50A2", "U+4FF1">>)>>)>>), JObj(<<<<"t", "h", "e", "m", "e">>,
    <<"l", "a", "n", "g", "u", "a", "g", "e">>, <<"n", "o", "t", "i", "f", "i", "c", "a",
    "t", "i", "o", "n", "s">>>>, <<JStr(<<"l", "i", "g", "h", "t">>), JStr(<<"z", "h",
    "-", "T", "W">>), JBool(TRUE)>>)>>)

\* the store's document after the effect of App that follows an update to current:
\* if (!jsonData || Object.keys(jsonData).length === 0) updateJsonData(sampleData)
AppEffect(current) ==
    IF ~Truthy(current.data) \/ KeyCount(current.data) = 0
    THEN Ref(sampleData, current.stamp + 1)
    ELSE current

\* the effect on [jsonData, isFocused, activeEditor] after a render with the store's
\* document current, isFocused focused, the text and lastSyncedData.current given;
\* activeEditor is never 'json-editor' (nothing calls setActiveEditor with it)
SyncEffect(current, focused, text, synced) ==
    IF ~focused /\ Truthy(synced.data) /\ NotSame(current, synced)
    THEN [text |-> formatJson(current.data), synced |-> current]
    ELSE [text |-> text, synced |-> synced]

\* the editor mounted on the store's initial document, after its initialization
\* effect
InitEditor ==
    /\ ExtractIdle
    /\ ClassifyIdle
    /\ StoreIdle
    /\ TableIdle
    /\ AnchorIdle
    /\ jsonData = initialData
    /\ updateCount = 0
    /\ previousDataRef = JNull
    /\ nodePositionsRef = <<>>
    /\ zoomStateRef = 0
    /\ changeType = "none"
    /\ timers = <<>>
    /\ drawn = <<>>
    /\ lastPass = <<>>
    /\ selectedPath = <<>>
    /\ selectedData = JNull
    /\ clicked = <<>>
    /\ dropped = <<>>
    /\ jsonText = formatJson(initialData)
    /\ isFocused = FALSE
    /\ hasFocus = FALSE
    /\ lastSyncedData = Ref(initialData, 0)

edFrame ==
    <<previousDataRef, nodePositionsRef, zoomStateRef, changeType, timers, drawn,
      lastPass, selVars, dropped, exVars, clVars,
      selectedTable, selectedTableData, selectedType, activeEditor, tbVars, cpVars>>

\* the textarea gets the focus: handleFocus
Focus ==
    /\ ~hasFocus
    /\ hasFocus' = TRUE
    /\ isFocused' = TRUE
    /\ UNCHANGED <<jsonData, updateCount, jsonText, lastSyncedData, errors, lastUpdate, edFrame>>

\* the user changes the text: handleTextChange
Type(text) ==
    /\ hasFocus
    /\ jsonText' = text
    /\ UNCHANGED <<jsonData, updateCount, isFocused, hasFocus, lastSyncedData, errors,
                   lastUpdate, edFrame>>

\* handleBlur(), and the effects of the renders that follow: the sync effect, the
\* effect of App and, after an update by that one, the sync effect again
handleBlur ==
    \E parsedData \in {validateJson(jsonText)} :
        /\ isFocused' = FALSE
        /\ IF parsedData # JNull
           THEN \E stored \in {AppEffect(Ref(parsedData, updateCount + 1))} :
                \E after \in {SyncEffect(stored, FALSE, formatJson(parsedData),
                                          Ref(parsedData, updateCount + 1))} :
                    /\ updateCount < MaxUpdates
                    /\ jsonData' = stored.data
                    /\ updateCount' = stored.stamp
                    /\ lastSyncedData' = after.synced
                    /\ jsonText' = after.text
                    /\ lastUpdate' = Now
                    /\ errors' = ClearedErrors(errors, "json-editor")
           ELSE \E after \in {SyncEffect(Ref(jsonData, updateCount), FALSE, jsonText,
                                         lastSyncedData)} :
                    /\ jsonText' = after.text
                    /\ lastSyncedData' = after.synced
                    /\ UNCHANGED <<jsonData, updateCount, errors, lastUpdate>>

\* the textarea loses the focus: onBlur
Blur ==
    /\ hasFocus
    /\ hasFocus' = FALSE
    /\ handleBlur
    /\ UNCHANGED edFrame

\* Ctrl+S in the textarea: handleKeyDown calls handleBlur, the focus stays
CtrlS ==
    /\ hasFocus
    /\ hasFocus' = TRUE
    /\ handleBlur
    /\ UNCHANGED edFrame

\* updateJsonData(d, source) of another editor, and the effects of the renders that
\* follow: the sync effect, the effect of App and the sync effect again
ExternalUpdate(d) ==
    /\ updateCount < MaxUpdates
    /\ \E stored \in {AppEffect(Ref(d, updateCount + 1))} :
       \E first \in {SyncEffect(Ref(d, updateCount + 1), isFocused, jsonText,
                                lastSyncedData)} :
       \E after \in {SyncEffect(stored, isFocused, first.text, first.synced)} :
           /\ jsonData' = stored.data
           /\ updateCount' = stored.stamp
           /\ jsonText' = after.text
           /\ lastSyncedData' = after.synced
    /\ lastUpdate' = Now
    /\ errors' = ClearedErrors(errors, "table-editor")
    /\ UNCHANGED <<isFocused, hasFocus, edFrame>>

NextEditor ==
    \/ Focus
    \/ \E text \in TypedTexts : Type(text)
    \/ Blur
    \/ CtrlS
    \/ \E d \in ExternalDocs : ExternalUpdate(d)

SpecEditor == InitEditor /\ [][NextEditor]_vars

-----------------------------------------------------------------------------
(* Properties of the JSON editor, under SpecEditor *)

\* C20: while the editor's text area has input focus, no document update made by
\* another editor replaces the editor's text: during a focus session the text
\* changes only by typing or into the formatted form of what the editor itself saved.
C20_FocusedTextKept ==
    [][(hasFocus /\ hasFocus' /\ jsonText' # jsonText)
           => \/ \E text \in TypedTexts : Type(text)
              \/ /\ validateJson(jsonText) # JNull
                 /\ jsonText' = formatJson(validateJson(jsonText))]_vars

\* C28: when the JSON editor loses focus or Ctrl+S is pressed, then if its text parses
\* as JSON the store document equals the parsed value once the commit and the effects
\* it triggers have run, and if the text does not parse the store document is
\* unchanged.
C28_CommitStoresParsed ==
    [][(Blur \/ CtrlS)
           => IF jsonText.kind = "json" THEN jsonData' = jsonText.data
              ELSE jsonData' = jsonData]_vars

\* another editor has updated the store's document since the editor got the focus
ExternalPending ==
    hasFocus /\ isFocused /\ NotSame(Ref(jsonData, updateCount), lastSyncedData)

\* C30: if another editor updates the store document while the JSON editor is
\* focused, and the JSON editor then loses focus with text that parses, the store
\* document afterwards is exactly the JSON editor's parsed text: the whole document is
\* replaced and the other editor's update is discarded rather than merged.
C30_BlurDiscardsExternal ==
    [][(Blur /\ ExternalPending /\ jsonText.kind = "json")
           => jsonData' = jsonText.data]_vars

-----------------------------------------------------------------------------
(* The store with the table editor (TableEditor.jsx): a table is selected   *)
(* by a click in the graph, a cell is edited, the JSON editor stores        *)
(* another document, and the store's remaining actions are called.          *)

\* the clicks take one of the first MaxClickNode nodes of the graph
MaxClickNode == 3

\* {"a": [[1, 2], [3, 4]]}
GridDoc ==
    JObj(<<kA>>, <<JArr(<<JArr(<<JNum(1), JNum(2)>>), JArr(<<JNum(3), JNum(4)>>)>>)>>)

\* {"a": [[[1]], 0]}: the table [[1]] is the element a[0]
NestedGridDoc == JObj(<<kA>>, <<JArr(<<JArr(<<JArr(<<JNum(1)>>)>>), JNum(0)>>)>>)

\* {"a": [1, 2]}
ListDoc == JObj(<<kA>>, <<JArr(<<JNum(1), JNum(2)>>)>>)

\* the documents the JSON editor stores
TableDocs == {GridDoc, NestedGridDoc, ListDoc}

\* the texts typed into a cell
CellTexts == {<<"7">>, <<"t", "r", "u", "e">>}

\* the error messages setError is called with
ErrorTexts == {<<"e">>}

\* the rows the sync effect builds: selectedTableData.map(row =>
\* Array.isArray(row) ? [...row] : [row])
Rows(data) ==
    [i \in 1..Len(data.items) |->
        IF IsArray(data.items[i]) THEN data.items[i].items ELSE <<data.items[i]>>]

\* the sync effect of the table editor on [selectedTableData, editingCell]; elapsed:
\* Date.now() - lastExternalUpdateRef.current > 1000
SyncedTable(data, editing, elapsed, current) ==
    IF IsArray(data)
    THEN IF editing = NoCell \/ elapsed THEN Rows(data) ELSE current
    ELSE <<>>

\* validateTableData(data)
validateTableData(data) ==
    /\ IsArray(data)
    /\ \A i \in 1..Len(data.items) :
           IsArray(data.items[i]) \/ TypeOf(data.items[i]) # "object"

\* updateCell: the type conversion of the typed text (the texts are made of letters
\* and digits only, so a text is a number exactly when it is made of digits)
ProcessedValue(text) ==
    IF text = <<>> THEN JStr(<<>>)
    ELSE IF text = <<"t", "r", "u", "e">> THEN JBool(TRUE)
    ELSE IF text = <<"f", "a", "l", "s", "e">> THEN JBool(FALSE)
    ELSE IF text = <<"n", "u", "l", "l">> THEN JNull
    ELSE IF \A i \in 1..Len(text) : IsDigit(text[i]) THEN JNum(ParseInt(text))
    ELSE JStr(text)

\* updateCell: newTableData, the rows padded up to the cell, with the value in it
NewTableData(rows, rowIndex, colIndex, value) ==
    [i \in 1..Max(Len(rows), rowIndex + 1) |->
        LET row == IF i <= Len(rows) THEN rows[i] ELSE <<>>
        IN  IF i = rowIndex + 1
            THEN [j \in 1..Max(Len(row), colIndex + 1) |->
                     IF j = colIndex + 1 THEN value
                     ELSE IF j <= Len(row) THEN row[j] ELSE JStr(<<>>)]
            ELSE row]

\* the rows as the array updateCell hands to setNestedValueInObject
AsTable(rows) == JArr([i \in 1..Len(rows) |-> JArr(rows[i])])

\* updateJsonData's refresh gives selectedTableData a new array
Refreshes(newData, table) == table # <<>> /\ IsArray(getNestedValue(newData, table))

\* updateJsonData(newData, source) of the store and the effect of App on the render
\* that follows
updateJsonData(newData, source) ==
    \E stored \in {AppEffect(Ref(newData, updateCount + 1))} :
        /\ jsonData' = stored.data
        /\ updateCount' = stored.stamp
        /\ lastUpdate' = Now
        /\ errors' = ClearedErrors(errors, source)
        /\ selectedTableData' =
               RefreshedTableData(stored.data, selectedTable,
                   RefreshedTableData(newData, selectedTable, selectedTableData))

\* what the components other than the store and the table editor hold
stFrame ==
    <<previousDataRef, nodePositionsRef, zoomStateRef, changeType, timers, drawn, lastPass,
      dropped, edVars, exVars, clVars, cpVars>>

\* the store's initial state, the table editor mounted on it
InitStore ==
    /\ ExtractIdle
    /\ ClassifyIdle
    /\ EditorIdle
    /\ StoreIdle
    /\ TableIdle
    /\ AnchorIdle
    /\ jsonData = initialData
    /\ updateCount = 0
    /\ previousDataRef = JNull
    /\ nodePositionsRef = <<>>
    /\ zoomStateRef = 0
    /\ changeType = "none"
    /\ timers = <<>>
    /\ drawn = <<>>
    /\ lastPass = <<>>
    /\ selectedPath = <<>>
    /\ selectedData = JNull
    /\ clicked = <<>>
    /\ dropped = <<>>

\* a click on the i-th node of the graph of the store's document, and the sync
\* effect of the table editor when the click selected an array
SelectNode(i) ==
    \E nodes \in {IF Truthy(jsonData) THEN extractGraphData(jsonData).nodes ELSE <<>>} :
        /\ i \in 1..Min(Len(nodes), MaxClickNode)
        /\ NodeClass(nodes[i]) \in {"table", "composite"}
        /\ selectNode(nodes[i])
        /\ clicked' = [id |-> nodes[i].id, data |-> nodes[i].data]
        /\ \E elapsed \in IF editingCell = NoCell THEN {TRUE} ELSE BOOLEAN :
               tableData' = IF IsArray(nodes[i].data)
                            THEN SyncedTable(nodes[i].data, editingCell, elapsed, tableData)
                            ELSE tableData
        /\ UNCHANGED <<jsonData, updateCount, lastUpdate, activeEditor, errors, editingCell,
                       committed, stFrame>>

\* one edit of the shown cell (rowIndex, colIndex): startEdit by the click on it, the
\* text typed, finishEdit by Enter or the blur; updateCell returns at once when no
\* table is selected.  A TypeError of setNestedValueInObject leaves finishEdit
\* before it cleared editingCell.
CommitCell(rowIndex, colIndex, text) ==
    /\ editingCell = NoCell
    /\ selectedTable # <<>>
    /\ rowIndex < Len(tableData)
    /\ colIndex < Len(tableData[rowIndex + 1])
    /\ \E newRows \in {NewTableData(tableData, rowIndex, colIndex, ProcessedValue(text))} :
       \E result \in {setNestedValueInObject(jsonData, selectedTable, AsTable(newRows))} :
           IF ~validateTableData(AsTable(newRows))
           THEN /\ tableData' = SyncedTable(selectedTableData, NoCell, TRUE, newRows)
                /\ committed' = [before |-> jsonData, after |-> jsonData,
                                 path |-> selectedTable, table |-> selectedTableData,
                                 row |-> rowIndex, col |-> colIndex,
                                 value |-> ProcessedValue(text), outcome |-> "invalid"]
                /\ UNCHANGED <<jsonData, updateCount, lastUpdate, errors, selectedTableData,
                               editingCell>>
           ELSE IF result.ok
           THEN /\ updateCount < MaxUpdates
                /\ updateJsonData(result.value, "table-editor")
                /\ editingCell' = NoCell
                /\ tableData' = SyncedTable(selectedTableData', NoCell, TRUE, newRows)
                /\ committed' = [before |-> jsonData, after |-> jsonData',
                                 path |-> selectedTable, table |-> selectedTableData,
                                 row |-> rowIndex, col |-> colIndex,
                                 value |-> ProcessedValue(text), outcome |-> "stored"]
           ELSE /\ tableData' = newRows
                /\ editingCell' = [row |-> rowIndex, col |-> colIndex]
                /\ committed' = [before |-> jsonData, after |-> jsonData,
                                 path |-> selectedTable, table |-> selectedTableData,
                                 row |-> rowIndex, col |-> colIndex,
                                 value |-> ProcessedValue(text), outcome |-> "thrown"]
                /\ UNCHANGED <<jsonData, updateCount, lastUpdate, errors, selectedTableData>>
    /\ UNCHANGED <<selectedTable, selectedType, activeEditor, selVars, stFrame>>

\* Escape in the edited cell: cancelEdit, and the sync effect its change of
\* editingCell runs
CancelEdit ==
    /\ editingCell # NoCell
    /\ editingCell' = NoCell
    /\ tableData' = SyncedTable(selectedTableData, NoCell, TRUE, tableData)
    /\ UNCHANGED <<jsonData, updateCount, lastUpdate, stVars, selVars, committed, stFrame>>

\* the JSON editor stores the document d, and the sync effect of the table editor
\* when the store refreshed selectedTableData
LoadDocument(d) ==
    /\ updateCount < MaxUpdates
    /\ updateJsonData(d, "json-editor")
    /\ \E elapsed \in IF editingCell = NoCell THEN {TRUE} ELSE BOOLEAN :
           tableData' = IF Refreshes(d, selectedTable)
                        THEN SyncedTable(selectedTableData', editingCell, elapsed, tableData)
                        ELSE tableData
    /\ UNCHANGED <<selectedTable, selectedType, activeEditor, selVars, editingCell,
                   committed, stFrame>>

\* setActiveEditor(editorId) of the store
SetActiveEditor(editorId) ==
    /\ activeEditor # editorId
    /\ activeEditor' = editorId
    /\ UNCHANGED <<jsonData, updateCount, lastUpdate, selectedTable, selectedTableData,
                   selectedType, errors, selVars, tbVars, stFrame>>

\* setError(editorId, error) of the store
SetError(editorId, error) ==
    /\ errors' = [errors EXCEPT ![editorId] = error]
    /\ UNCHANGED <<jsonData, updateCount, lastUpdate, selectedTable, selectedTableData,
                   selectedType, activeEditor, selVars, tbVars, stFrame>>

\* clearError(editorId) of the store
ClearError(editorId) ==
    /\ errors[editorId] # NoError
    /\ errors' = [errors EXCEPT ![editorId] = NoError]
    /\ UNCHANGED <<jsonData, updateCount, lastUpdate, selectedTable, selectedTableData,
                   selectedType, activeEditor, selVars, tbVars, stFrame>>

\* reset() of the store: the fields its set callback assigns
reset ==
    /\ jsonData' = initialData
    /\ selectedTable' = <<>>
    /\ selectedTableData' = JArr(<<>>)
    /\ activeEditor' = NoEditor
    /\ errors' = NoErrors
    /\ updateCount' = 0
    /\ lastUpdate' = NoTime
    /\ UNCHANGED <<selectedPath, selectedData, selectedType>>

\* reset() and the sync effect of the table editor on the new selectedTableData
Reset ==
    /\ reset
    /\ \E elapsed \in IF editingCell = NoCell THEN {TRUE} ELSE BOOLEAN :
           tableData' = SyncedTable(JArr(<<>>), editingCell, elapsed, tableData)
    /\ UNCHANGED <<clicked, editingCell, committed, stFrame>>

NextStore ==
    \/ \E i \in 1..MaxClickNode : SelectNode(i)
    \/ \E rowIndex \in 0..1, colIndex \in 0..1, text \in CellTexts :
           CommitCell(rowIndex, colIndex, text)
    \/ CancelEdit
    \/ \E d \in TableDocs : LoadDocument(d)
    \/ \E editorId \in {NoEditor, TableEditorId} : SetActiveEditor(editorId)
    \/ \E error \in ErrorTexts : SetError("tableEditor", error)
    \/ ClearError("tableEditor")
    \/ Reset

SpecStore == InitStore /\ [][NextStore]_vars

-----------------------------------------------------------------------------
(* Properties of the store and the table editor *)

\* C22: after reset() every field of the store has its initial value: jsonData,
\* selectedTable, selectedTableData, selectedPath, selectedData, selectedType,
\* activeEditor, errors and stats
C22_ResetRestoresInitial ==
    [][Reset => /\ jsonData' = initialData
                /\ selectedTable' = <<>>
                /\ selectedTableData' = JArr(<<>>)
                /\ selectedPath' = <<>>
                /\ selectedData' = JNull
                /\ selectedType' = NoType
                /\ activeEditor' = NoEditor
                /\ errors' = NoErrors
                /\ updateCount' = 0
                /\ lastUpdate' = NoTime]_vars

\* the path the graph names the i-th property or element of the value at id by; the
\* keys of the root object are named by themselves
ChildPath(v, id, isRoot, i) ==
    IF IsArray(v) THEN id \o IndexKey(i - 1)
    ELSE IF isRoot THEN v.keys[i]
    ELSE id \o <<".">> \o v.keys[i]

RECURSIVE PositionsIn(_, _, _)
\* every position below v: the path that names it, where it is (the indices into
\* items from the document down) and the value there
PositionsIn(v, id, loc) ==
    UNION {{[id |-> ChildPath(v, id, loc = <<>>, i), loc |-> Append(loc, i),
             value |-> v.items[i]]}
           \cup PositionsIn(v.items[i], ChildPath(v, id, loc = <<>>, i), Append(loc, i)) :
           i \in 1..Len(v.items)}

RECURSIVE ReplacedAt(_, _, _, _)
\* the document v with the value at loc (from its k-th index on) replaced by new
ReplacedAt(v, loc, k, new) ==
    IF k > Len(loc) THEN new
    ELSE [v EXCEPT !.items[loc[k]] = ReplacedAt(v.items[loc[k]], loc, k + 1, new)]

\* the array table with only its element at row rowIndex, column colIndex replaced;
\* an element that is no array is the one cell of its row
CellReplaced(table, rowIndex, colIndex, value) ==
    IF IsArray(table.items[rowIndex + 1])
    THEN [table EXCEPT !.items[rowIndex + 1].items[colIndex + 1] = value]
    ELSE [table EXCEPT !.items[rowIndex + 1] = value]

\* the table of the edit c is the data of an array node of the graph of the document
\* the edit was made on, as a click on that node selects it
SelectedByClick(c) ==
    \E nodes \in {extractGraphData(c.before).nodes} :
        \E i \in 1..Len(nodes) :
            nodes[i].id = c.path /\ nodes[i].data = c.table /\ IsArray(nodes[i].data)

\* C21: a finished edit of cell (r, c) of a table selected by clicking an array node
\* of the graph at path p leaves the store's document equal to the document before,
\* except for the element at row r, column c of the value at path p
C21_CommitChangesOnlyCell ==
    (committed # NoCommit /\ SelectedByClick(committed))
        => \E pos \in PositionsIn(committed.before, <<>>, <<>>) :
               /\ pos.id = committed.path
               /\ pos.value = committed.table
               /\ committed.after =
                      ReplacedAt(committed.before, pos.loc, 1,
                                 CellReplaced(committed.table, committed.row,
                                              committed.col, committed.value))

\* C21 for the edits of a table of rows that is the value of a key of the root
C21_RootKeyGrid ==
    (/\ committed # NoCommit
     /\ SelectedByClick(committed)
     /\ \A i \in 1..Len(committed.path) : committed.path[i] \notin {"[", "."}
     /\ EveryItemIsArray(committed.table))
        => \E pos \in PositionsIn(committed.before, <<>>, <<>>) :
               /\ pos.id = committed.path
               /\ pos.value = committed.table
               /\ committed.after =
                      ReplacedAt(committed.before, pos.loc, 1,
                                 CellReplaced(committed.table, committed.row,
                                              committed.col, committed.value))

\* an edit of a root key's table of rows was stored
C21_RootKeyGridStored ==
    /\ committed # NoCommit
    /\ committed.outcome = "stored"
    /\ committed.path = kA
    /\ EveryItemIsArray(committed.table)
    /\ committed.after # committed.before

-----------------------------------------------------------------------------
(* GraphViewer.jsx: getOptimalConnectionPoints, applied to a parent and its  *)
(* children as renderLinks passes them; graphUtils.js: getNodeDimensions     *)

\* the margin kept at the top and at the bottom of the source node
anchorMargin == 10

\* getNodeDimensions(node), in pixels
getNodeDimensions(node) ==
    IF node.type = "root" THEN [width |-> 80, height |-> rootHeight]
    ELSE IF node.type = "2d-array"
    THEN IF Truthy(node.data) /\ Len(node.data.items) > 0
         THEN [width |-> Max(200, 80 * MaxOver([i \in 1..Len(node.data.items) |->
                                                    Len(node.data.items[i].items)],
                                                Len(node.data.items)) + 40),
               height |-> Max(tableMinHeight,
                              Len(node.data.items) * tableRowHeight + tableHeader)]
         ELSE [width |-> 160, height |-> 40]
    ELSE IF node.type = "complex-box"
    THEN [width |->
              IF node.subtype = "array"
              THEN Min(200, Max(120, MaxOver([i \in 1..Len(node.properties) |->
                                     Max(100, Len(node.properties[i].value) * 7 + 50)],
                                 Len(node.properties))))
              ELSE Min(300, Max(120, MaxOver([i \in 1..Len(node.properties) |->
                                     Max(160, (Len(node.properties[i].key)
                                               + Len(node.properties[i].value) + 4) * 7
                                              + 40)],
                                 Len(node.properties)))),
          height |-> baseHeight + Len(node.properties) * rowHeight
                         + Len(node.slots) * slotHeight + boxPadding]
    ELSE IF node.type \in {"string", "number", "boolean", "primitive"}
    THEN [width |-> 160, height |-> defaultHeight]
    ELSE [width |-> 160, height |-> 40]

\* layoutedNodes: the nodes with their positions
Placed(nodes, pos) ==
    [i \in 1..Len(nodes) |-> [node |-> nodes[i], x |-> pos[i].x, y |-> pos[i].y]]

\* layoutedNodes.find(n => n.id === id): its index, 0 when there is none
FindPlaced(placed, id) ==
    IF \E i \in 1..Len(placed) : placed[i].node.id = id
    THEN CHOOSE i \in 1..Len(placed) :
             placed[i].node.id = id /\ \A j \in 1..(i - 1) : placed[j].node.id # id
    ELSE 0

RECURSIVE ChildLinksUpTo(_, _, _)
\* parentChildrenMap.get(parentId): the links that are no slot links and start at
\* parentId, among the first n links
ChildLinksUpTo(links, parentId, n) ==
    IF n = 0 THEN <<>>
    ELSE IF links[n].type # "slot" /\ links[n].sourceId = parentId
    THEN Append(ChildLinksUpTo(links, parentId, n - 1), links[n])
    ELSE ChildLinksUpTo(links, parentId, n - 1)

RECURSIVE FoundTargets(_, _, _)
\* childLinks.map(link => layoutedNodes.find(n => n.id === link.targetId))
\* .filter(Boolean), over the first n links
FoundTargets(childLinks, placed, n) ==
    IF n = 0 THEN <<>>
    ELSE IF FindPlaced(placed, childLinks[n].targetId) = 0
    THEN FoundTargets(childLinks, placed, n - 1)
    ELSE Append(FoundTargets(childLinks, placed, n - 1),
                placed[FindPlaced(placed, childLinks[n].targetId)])

\* the keys of parentChildrenMap
ParentIds(g) ==
    {g.links[i].sourceId : i \in {j \in 1..Len(g.links) : g.links[j].type # "slot"}}

RECURSIVE InsertByY(_, _, _)
InsertByY(s, x, i) ==
    IF i = 0 \/ s[i].y - x.y <= 0
    THEN SubSeq(s, 1, i) \o <<x>> \o SubSeq(s, i + 1, Len(s))
    ELSE InsertByY(s, x, i - 1)

RECURSIVE SortByYUpTo(_, _)
\* the first n targets of s, sorted
SortByYUpTo(s, n) ==
    IF n <= 1 THEN SubSeq(s, 1, n)
    ELSE CHOOSE out \in
             {InsertByY(front, s[n], n - 1) : front \in {SortByYUpTo(s, n - 1)}} : TRUE

\* [...targetNodes].sort((a, b) => a.y - b.y)
SortByY(s) == SortByYUpTo(s, Len(s))

\* t.y + getNodeDimensions(t).height / 2
CenterOf(t) == t.y + (getNodeDimensions(t.node).height * Scale) \div 2

RECURSIVE ScaledQuotient(_, _, _)
\* n / d in units of 1/Scale, rounded down, digit by digit from unit = Scale on (the
\* product n * Scale itself can exceed the integers of the model checker)
ScaledQuotient(n, d, unit) ==
    IF unit = 0 THEN 0
    ELSE (n \div d) * unit + ScaledQuotient((n % d) * 10, d, unit \div 10)

\* the source point from the bottom margin upwards
AnchorYFromBottom(minSourceY, availableHeight, targetCenterY, minTargetY, maxTargetY) ==
    minSourceY
        + ScaledQuotient((availableHeight \div Scale) * (maxTargetY - targetCenterY),
                         maxTargetY - minTargetY, Scale)

\* minSourceY + availableHeight * ratio, rounded down to 1/Scale pixel;
\* availableHeight is a whole number of pixels
AnchorY(minSourceY, availableHeight, targetCenterY, minTargetY, maxTargetY) ==
    minSourceY
        + ScaledQuotient((availableHeight \div Scale) * (targetCenterY - minTargetY),
                         maxTargetY - minTargetY, Scale)

\* getOptimalConnectionPoints(sourceNode, targetNodes)
getOptimalConnectionPoints(sourceNode, targetNodes) ==
    \* bound once: the dimensions of the source, the sorted targets, their centers
    CHOOSE out \in
        {IF Len(targetNodes) = 0 THEN <<>>
         ELSE IF Len(targetNodes) = 1
         THEN <<[source |-> [x |-> sourceNode.x + sourceDim.width * Scale,
                             y |-> sourceNode.y + (sourceDim.height * Scale) \div 2],
                 target |-> [x |-> targetNodes[1].x, y |-> CenterOf(targetNodes[1])],
                 targetNode |-> targetNodes[1]]>>
         ELSE [i \in 1..Len(sortedTargets) |->
                  [source |->
                       [x |-> sourceNode.x + sourceDim.width * Scale,
                        y |-> IF Len(sortedTargets) = 1
                                 \/ (\A j \in 1..Len(centers) : centers[j] = centers[1])
                              THEN sourceNode.y + (sourceDim.height * Scale) \div 2
                              ELSE AnchorY(
                                       sourceNode.y + anchorMargin * Scale,
                                       (sourceNode.y + sourceDim.height * Scale
                                            - anchorMargin * Scale)
                                           - (sourceNode.y + anchorMargin * Scale),
                                       centers[i],
                                       CHOOSE c \in {centers[j] : j \in 1..Len(centers)} :
                                           \A j \in 1..Len(centers) : c <= centers[j],
                                       CHOOSE c \in {centers[j] : j \in 1..Len(centers)} :
                                           \A j \in 1..Len(centers) : c >= centers[j])],
                   target |-> [x |-> sortedTargets[i].x, y |-> centers[i]],
                   targetNode |-> sortedTargets[i]]] :
            sourceDim \in {getNodeDimensions(sourceNode.node)},
            sortedTargets \in {SortByY(targetNodes)},
            centers \in {[j \in 1..Len(targetNodes) |-> CenterOf(SortByY(targetNodes)[j])]}} :
        TRUE

\* the documents drawn
AnchorDocs == LayoutDocs

\* a parent of the graph of one of AnchorDocs and its children, at the positions of
\* the layout, one of the first MaxDragNode nodes dragged to one of DragPositions or
\* none
InitAnchor ==
    /\ ViewIdle
    /\ ExtractIdle
    /\ ClassifyIdle
    /\ EditorIdle
    /\ StoreIdle
    /\ TableIdle
    /\ cpOut = <<>>
    /\ cpDone = FALSE
    /\ \E d \in AnchorDocs :
       \E g \in {extractGraphData(d)} :
       \E layout \in {layoutNodes(g.nodes, TRUE, <<>>)} :
       \E i \in 0..Min(Len(g.nodes), MaxDragNode), p \in DragPositions :
       \E placed \in {Placed(g.nodes, IF i = 0 THEN layout.pos
                                      ELSE [layout.pos EXCEPT ![i] = p])} :
       \E parentId \in ParentIds(g) :
           /\ FindPlaced(placed, parentId) # 0
           /\ cpSource = placed[FindPlaced(placed, parentId)]
           /\ cpTargets = FoundTargets(ChildLinksUpTo(g.links, parentId, Len(g.links)),
                                       placed,
                                       Len(ChildLinksUpTo(g.links, parentId, Len(g.links))))
           /\ cpTargets # <<>>

\* renderLinks calls getOptimalConnectionPoints(sourceNode, targetNodes)
RunAnchor ==
    /\ ~cpDone
    /\ cpOut' = getOptimalConnectionPoints(cpSource, cpTargets)
    /\ cpDone' = TRUE
    /\ UNCHANGED <<cpSource, cpTargets, viewVars, exVars, clVars, edVars, stVars, lastUpdate,
                   tbVars>>

NextAnchor == RunAnchor

SpecAnchor == InitAnchor /\ [][NextAnchor]_vars

-----------------------------------------------------------------------------
(* Properties of getOptimalConnectionPoints *)

\* the bounds of the source points
AnchorLow == cpSource.y + anchorMargin * Scale
AnchorHigh ==
    cpSource.y + getNodeDimensions(cpSource.node).height * Scale - anchorMargin * Scale

\* the centers of the targets are not all the same
CentersDiffer == \E i, j \in 1..Len(cpTargets) : CenterOf(cpTargets[i]) # CenterOf(cpTargets[j])

\* every source point lies within the bounds
AnchorsInRange ==
    \A i \in 1..Len(cpOut) : AnchorLow <= cpOut[i].source.y /\ cpOut[i].source.y <= AnchorHigh

\* the topmost target center has the source point at the lower bound, the bottommost
\* at the upper bound
ExtremesAtBounds ==
    \A i \in 1..Len(cpOut) :
        /\ (\A j \in 1..Len(cpOut) : cpOut[i].target.y <= cpOut[j].target.y)
               => cpOut[i].source.y = AnchorLow
        /\ (\A j \in 1..Len(cpOut) : cpOut[i].target.y >= cpOut[j].target.y)
               => cpOut[i].source.y = AnchorHigh

\* the source points are in the vertical order of the target centers
AnchorsOrdered ==
    \A i, j \in 1..Len(cpOut) :
        /\ cpOut[i].target.y < cpOut[j].target.y => cpOut[i].source.y < cpOut[j].source.y
        /\ cpOut[i].target.y = cpOut[j].target.y => cpOut[i].source.y = cpOut[j].source.y

\* there is one connection for each target, to the center of its left edge
OnePerTarget ==
    /\ Len(cpOut) = Len(cpTargets)
    /\ \A i \in 1..Len(cpOut) :
           /\ \E k \in 1..Len(cpTargets) : cpOut[i].targetNode = cpTargets[k]
           /\ cpOut[i].target.y = CenterOf(cpOut[i].targetNode)

\* C27 as stated: for a source with two or more targets every source point lies in
\* [source.y + 10, source.y + height - 10], the topmost target center has the lower
\* bound, the bottommost the upper bound, and the source points are in the order of
\* the target centers
C27_AnchorsAsClaimed ==
    (cpDone /\ Len(cpTargets) >= 2)
        => OnePerTarget /\ AnchorsInRange /\ ExtremesAtBounds /\ AnchorsOrdered

\* C27, amended: that holds when the target centers are not all the same; when they
\* are, every source point is the middle of the source's right edge
C27_Anchors ==
    (cpDone /\ Len(cpTargets) >= 2)
        => /\ OnePerTarget
           /\ AnchorsInRange
           /\ AnchorsOrdered
           /\ IF CentersDiffer THEN ExtremesAtBounds
              ELSE \A i \in 1..Len(cpOut) :
                       cpOut[i].source.y
                           = cpSource.y
                               + (getNodeDimensions(cpSource.node).height * Scale) \div 2

\* two or more targets at different heights got their source points, the bounds among
\* them
C27_Witness ==
    /\ cpDone
    /\ Len(cpTargets) >= 2
    /\ CentersDiffer
    /\ \E i, j \in 1..Len(cpOut) :
           cpOut[i].source.y = AnchorLow /\ cpOut[j].source.y = AnchorHigh

=============================================================================
